---- MODULE Spec2Model ----
(***************************************************************************)
(* QuantumVest backend: portfolio service, authentication decorators, the  *)
(* in-memory rate limiter, the market-data fetcher, the portfolio          *)
(* optimizers, the risk service (VaR, expected shortfall, stress test),    *)
(* the price stream, role permissions, registration, token refresh, the   *)
(* two-factor decorator and the WebSocket service, as state machines.      *)
(*                                                                         *)
(* JSON bodies are sets of <<key, value>> pairs of strings.  Money and     *)
(* quantities are integers (whole units).  A request is served to its end  *)
(* before the next one starts: one action per handler.                     *)
(*                                                                         *)
(* The portfolio service is modelled over the schema it reads and writes   *)
(* (Portfolio.is_default, Holding.quantity / average_cost, Transaction     *)
(* rows) together with the CHECK and UNIQUE constraints models.py declares *)
(* on portfolio_holdings and transactions.                                 *)
(***************************************************************************)
EXTENDS Integers, Sequences, FiniteSets, Bags, TLC

VARIABLES
    portfolios,     \* portfolios table: Seq of [user_id, is_default]; id = index
    holdings,       \* portfolio_holdings table: set of rows
    transactions,   \* transactions table: bag of committed rows
    pending,        \* bag of Transaction rows in db.session, not yet committed
    resp,           \* the response to the last portfolio request
    accounts,       \* users table: "active", "inactive", or "none" (no row)
    authReq,        \* the last request to a decorated endpoint
    authResp,       \* its response and which functions ran
    requests,       \* rate_limiter.requests: key -> list of request times
    clock,          \* datetime.now(timezone.utc), in seconds
    allowedLog,     \* history: key -> bag of the times of its allowed requests
    rateResp,       \* the response to the last rate-limited request
    cache,          \* cache file of each symbol: "none", "fresh" or "stale"
    fetch,          \* the fetch_data call in progress or last finished
    opt,            \* the optimization call in progress or last finished
    risk,           \* the last risk calculation and its inputs
    optWeights,     \* the last weight optimization: its inputs and its result
    varCalc,        \* one VaR computation: its inputs and its result
    stress,         \* one stress test: its inputs and its result
    streaming,      \* the price stream: run flag, subscribers, loops
    authz,          \* the last authorization decision
    registration,   \* the users table and the last registration
    refresh,        \* the last refresh_access_token call
    twoFactor,      \* the last request to a route behind require_2fa
    lastCall,       \* the user and portfolio id of the last portfolio request
    ws              \* WebSocketService: sessions, rooms, subscribers, last event

pfVars == <<portfolios, holdings, transactions, pending, resp>>

authVars == <<accounts, authReq, authResp>>

rateVars == <<requests, clock, allowedLog, rateResp>>

fetchVars == <<cache, fetch>>

vars ==
    <<pfVars, authVars, rateVars, fetchVars, opt, risk, optWeights, varCalc,
      stress, streaming, authz, registration, refresh, twoFactor, lastCall, ws>>

---------------------------------------------------------------------------
\* Bounds of the model
MaxPortfolios == 3
MaxTx == 2
MaxQty == 2
MaxPrice == 1
MaxFee == 1

---------------------------------------------------------------------------
\* Portfolio service (portfolio_service.py) behind its routes (api_routes.py)

Users == {"u1", "u2"}

\* subscription_tier of each user, read by premium_required
Tier(u) == IF u = "u1" THEN "admin" ELSE "free"

\* symbols of the rows of the assets table
Assets == {"BTC", "ETH"}

\* asset_symbol values a request may carry
Symbols == {"BTC", "eth", "ZZZ"}

\* transaction_type values a request may carry
TxTypeInputs == {"buy", "SELL", "dividend"}

Quantities == -1 .. MaxQty
Prices == {-1} \cup (1 .. MaxPrice)
FeeValues == 0 .. MaxFee

\* str.upper() on the symbols of the model
Upper(s) == CASE s = "eth" -> "ETH" [] s = "btc" -> "BTC" [] OTHER -> s

\* str.lower() on the transaction types of the model
Lower(s) == CASE s = "SELL" -> "sell" [] s = "BUY" -> "buy" [] OTHER -> s

Ok(extra) == {<<"success", "true">>} \cup extra

Fail(msg) == {<<"success", "false">>, <<"error", msg>>}

HasKey(body, k) == \E p \in body : p[1] = k

\* Portfolio.query.filter_by(id=portfolio_id, user_id=user_id).first()
\* a look-up that leaves the owner out of the filter
FindPortfolioById(pid, uid) == pid \in DOMAIN portfolios

FindPortfolio(pid, uid) ==
    pid \in DOMAIN portfolios /\ portfolios[pid].user_id = uid

\* PortfolioHolding.query.filter_by(portfolio_id=.., asset_id=..).first()
FindHolding(pid, a) ==
    {h \in holdings : h.portfolio_id = pid /\ h.asset_id = a}

\* a database that does not enforce CHECK constraints
CheckConstraintsDropped(txRows, holdingRows) == TRUE

\* CHECK constraints of models.py: transactions (quantity > 0, price >= 0,
\* fees >= 0) and portfolio_holdings (quantity >= 0, average_cost >= 0),
\* evaluated by the database when rows are flushed
CheckConstraintsHold(txRows, holdingRows) ==
    /\ \A t \in txRows : t.quantity > 0 /\ t.price >= 0 /\ t.fees >= 0
    /\ \A h \in holdingRows : h.quantity >= 0 /\ h.average_cost >= 0

\* db.session.commit(): every pending Transaction row becomes persistent
Committed(newRows) == transactions (+) pending (+) newRows

NoResp == [op |-> "none", status |-> 0, body |-> {}]

Response(op, status, body) == [op |-> op, status |-> status, body |-> body]

\* the rows of a portfolios table that filter_by(user_id=.., is_default=True) finds
DefaultsIn(table, uid) ==
    {i \in DOMAIN table : table[i].user_id = uid /\ table[i].is_default}

\* the user's portfolios that carry is_default = True
ExistingDefault(uid) == DefaultsIn(portfolios, uid)

\* create_portfolio without lines 47-52
ClearDefaultSkipped(uid, d) == portfolios

\* create_portfolio, lines 47-52: the first existing default loses the flag
ClearDefault(uid, d) ==
    IF d /\ ExistingDefault(uid) # {}
    THEN LET first == CHOOSE i \in ExistingDefault(uid) :
                          \A j \in ExistingDefault(uid) : i <= j
         IN [portfolios EXCEPT ![first].is_default = FALSE]
    ELSE portfolios

\* POST /portfolios -> PortfolioService.create_portfolio.  name "absent" is a
\* body without the key (rejected by the route), "null" a JSON null (the
\* NOT NULL column makes the commit fail and the session is rolled back).
CreatePortfolio(uid, name, d) ==
    /\ Len(portfolios) < MaxPortfolios
    /\ UNCHANGED holdings
    /\ IF name = "absent"
       THEN /\ resp' = Response("create_portfolio", 400,
                                Fail("Portfolio name is required"))
            /\ UNCHANGED <<portfolios, transactions, pending>>
       ELSE IF name = "null"
       THEN /\ resp' = Response("create_portfolio", 400,
                                Fail("IntegrityError"))
            /\ pending' = EmptyBag
            /\ UNCHANGED <<portfolios, transactions>>
       ELSE /\ portfolios' = Append(ClearDefault(uid, d),
                                    [user_id |-> uid, is_default |-> d])
            /\ transactions' = Committed(EmptyBag)
            /\ pending' = EmptyBag
            /\ resp' = Response("create_portfolio", 201, Ok({}))

\* the Transaction row add_transaction builds, lines 193-204
NewTransaction(pid, a, ttype, q, price, fees) ==
    [portfolio_id |-> pid, asset_id |-> a, transaction_type |-> Lower(ttype),
     quantity |-> q, price |-> price, fees |-> fees]

\* sell branch, line 232: the sale is refused
InsufficientHoldings(found, q) ==
    found = {} \/ \E h \in found : h.quantity < q

\* status the add_transaction route gives a service result, lines 295-298
AddTransactionStatus(success) == IF success THEN 201 ELSE 400

\* POST /portfolios/<id>/transactions -> PortfolioService.add_transaction.
\* The request carries the four required fields with numeric values.
AddTransaction(uid, pid, sym, ttype, q, price, fees) ==
    LET a == Upper(sym)
        tx == NewTransaction(pid, a, ttype, q, price, fees)
        found == FindHolding(pid, a)
        kind == Lower(ttype)
        reply(success, body) ==
            Response("add_transaction", AddTransactionStatus(success), body)
        rollback(msg) ==
            /\ pending' = EmptyBag
            /\ resp' = reply(FALSE, Fail(msg))
            /\ UNCHANGED <<holdings, transactions>>
        commit(newHoldings, changed) ==
            IF CheckConstraintsHold({}, changed)
            THEN /\ holdings' = newHoldings
                 /\ transactions' = Committed(SetToBag({tx}))
                 /\ pending' = EmptyBag
                 /\ resp' = reply(TRUE, Ok({}))
            ELSE rollback("IntegrityError")
    IN
    /\ BagCardinality(transactions) + BagCardinality(pending) < MaxTx
    /\ UNCHANGED portfolios
    /\ IF ~FindPortfolio(pid, uid)
       THEN /\ resp' = reply(FALSE, Fail("Portfolio not found"))
            /\ UNCHANGED <<holdings, transactions, pending>>
       ELSE IF a \notin Assets
       THEN /\ resp' = reply(FALSE, Fail("Asset not found"))
            /\ UNCHANGED <<holdings, transactions, pending>>
       \* the holding query autoflushes the new row: its CHECKs are evaluated
       ELSE IF ~CheckConstraintsHold({tx}, {})
       THEN rollback("IntegrityError")
       ELSE IF kind = "buy"
       THEN IF found # {}
            \* lines 216-218: Decimal + float raises TypeError
            THEN rollback("TypeError")
            ELSE LET h == [portfolio_id |-> pid, asset_id |-> a,
                           quantity |-> q, average_cost |-> price]
                 IN commit(holdings \cup {h}, {h})
       ELSE IF kind = "sell"
       THEN IF InsufficientHoldings(found, q)
            \* line 233: returns with the row still in the session
            THEN /\ pending' = pending (+) SetToBag({tx})
                 /\ resp' = reply(FALSE, Fail("Insufficient holdings to sell"))
                 /\ UNCHANGED <<holdings, transactions>>
            ELSE LET h == CHOOSE x \in found : TRUE
                     sold == [h EXCEPT !.quantity = h.quantity - q]
                 IN IF sold.quantity = 0
                    THEN commit(holdings \ {h}, {})
                    ELSE commit((holdings \ {h}) \cup {sold}, {sold})
       ELSE commit(holdings, {})

\* GET /portfolios/<id> -> PortfolioService.get_portfolio_details.  The
\* valuation fields recomputed on read are not part of the state kept here.
GetPortfolioDetails(uid, pid) ==
    /\ UNCHANGED <<portfolios, holdings>>
    /\ IF ~FindPortfolio(pid, uid)
       THEN /\ resp' = Response("get_portfolio_details", 404,
                                Fail("Portfolio not found"))
            /\ UNCHANGED <<transactions, pending>>
       ELSE /\ transactions' = Committed(EmptyBag)
            /\ pending' = EmptyBag
            /\ resp' = Response("get_portfolio_details", 200, Ok({}))

\* GET /portfolios/<id>/performance -> PortfolioService.get_portfolio_performance
GetPortfolioPerformance(uid, pid) ==
    /\ UNCHANGED <<portfolios, holdings, transactions, pending>>
    /\ resp' = IF ~FindPortfolio(pid, uid)
               THEN Response("get_portfolio_performance", 404,
                             Fail("Portfolio not found"))
               ELSE Response("get_portfolio_performance", 200, Ok({}))

\* premium_required, auth.py lines 232-240
PremiumTiers == {"premium", "professional", "admin"}

\* POST /portfolios/<id>/optimize -> premium_required ->
\* PortfolioService.optimize_portfolio(portfolio_id, user_id, ...).  priceData
\* is the set of assets _get_asset_returns finds a return series for.
OptimizePortfolio(uid, pid, priceData) ==
    LET held == {h \in holdings : h.portfolio_id = pid}
        priced == {h \in held : h.asset_id \in priceData}
        reply(status, body) == Response("optimize_portfolio", status, body)
    IN
    /\ UNCHANGED <<portfolios, holdings, transactions, pending>>
    /\ resp' = IF Tier(uid) \notin PremiumTiers
               THEN reply(403, {<<"error", "Premium subscription required">>})
               ELSE IF ~FindPortfolio(pid, uid)
               THEN reply(400, Fail("Portfolio not found"))
               ELSE IF Cardinality(held) < 2
               THEN reply(400, Fail("Need at least 2 assets for optimization"))
               ELSE IF Cardinality(priced) < 2
               THEN reply(400, Fail("Insufficient price data for optimization"))
               ELSE reply(200, Ok({}))

\* end of the application context: the scoped session is removed and what it
\* still holds uncommitted is rolled back
Teardown ==
    /\ pending # EmptyBag
    /\ pending' = EmptyBag
    /\ UNCHANGED <<portfolios, holdings, transactions, resp>>

\* the ids a request may name: those of the rows, and one that has no row
PortfolioIds == 1 .. (Len(portfolios) + 1)

PfInit ==
    /\ portfolios = <<>>
    /\ holdings = {}
    /\ transactions = EmptyBag
    /\ pending = EmptyBag
    /\ resp = NoResp

\* no portfolio request has been made
NoCall == [user_id |-> "", portfolio_id |-> 0]

CallIdle == lastCall = NoCall

\* the request being answered: who asks, and for which portfolio id
Call(uid, pid) == lastCall' = [user_id |-> uid, portfolio_id |-> pid]

\* two users with a portfolio each, before any transaction
TxInit ==
    /\ portfolios = <<[user_id |-> "u1", is_default |-> TRUE],
                      [user_id |-> "u2", is_default |-> TRUE]>>
    /\ holdings = {}
    /\ transactions = EmptyBag
    /\ pending = EmptyBag
    /\ resp = NoResp

\* what the portfolio endpoints leave alone
notPf ==
    <<authVars, rateVars, fetchVars, opt, risk, optWeights, varCalc, stress,
      streaming, authz, registration, refresh, twoFactor, ws>>

\* creating and reading portfolios
PfNext ==
    \/ \E u \in Users, n \in {"absent", "null", "Main"}, d \in BOOLEAN :
           CreatePortfolio(u, n, d) /\ Call(u, 0) /\ UNCHANGED notPf
    \/ \E u \in Users, p \in PortfolioIds :
           GetPortfolioDetails(u, p) /\ Call(u, p) /\ UNCHANGED notPf
    \/ \E u \in Users, p \in PortfolioIds :
           GetPortfolioPerformance(u, p) /\ Call(u, p) /\ UNCHANGED notPf
    \/ \E u \in Users, p \in PortfolioIds, pd \in SUBSET Assets :
           OptimizePortfolio(u, p, pd) /\ Call(u, p) /\ UNCHANGED notPf

\* trading in, and reading, the portfolios that exist
TxNext ==
    \/ \E u \in Users, p \in PortfolioIds, s \in Symbols, t \in TxTypeInputs,
          q \in Quantities, pr \in Prices, f \in FeeValues :
           AddTransaction(u, p, s, t, q, pr, f) /\ Call(u, p)
           /\ UNCHANGED notPf
    \/ \E u \in Users, p \in PortfolioIds :
           GetPortfolioDetails(u, p) /\ Call(u, p) /\ UNCHANGED notPf
    \/ \E u \in Users, p \in PortfolioIds :
           GetPortfolioPerformance(u, p) /\ Call(u, p) /\ UNCHANGED notPf
    \/ \E u \in Users, p \in PortfolioIds, pd \in SUBSET Assets :
           OptimizePortfolio(u, p, pd) /\ Call(u, p) /\ UNCHANGED notPf
    \/ Teardown /\ UNCHANGED <<lastCall, notPf>>

---------------------------------------------------------------------------
\* Authentication decorators (auth.py)

\* user_id values a token payload may carry: a user, an id with no row, an
\* empty string, or no user_id key at all
PayloadUserIds == Users \cup {"ghost", "", "absent"}

\* what follows the first word of an Authorization header after split(" ")
Tokens ==
    [kind : {"jwt"}, user_id : PayloadUserIds, type : {"access", "refresh"},
     signed : BOOLEAN, expired : BOOLEAN]
    \cup [kind : {"garbage", "empty"}, user_id : {""}, type : {""},
          signed : {FALSE}, expired : {FALSE}]

\* Authorization headers: parts = <<scheme>> \o rest is auth_header.split(" ")
Headers ==
    [present : {FALSE}, scheme : {""}, rest : {<<>>}]
    \cup [present : {TRUE}, scheme : {"Bearer", "Token"},
          rest : {<<>>} \cup {<<t>> : t \in Tokens}
                 \cup {<<[kind |-> "empty", user_id |-> "", type |-> "",
                          signed |-> FALSE, expired |-> FALSE], t>> :
                        t \in {x \in Tokens : x.signed /\ ~x.expired}}]

\* verify_token accepting expired signatures
VerifyTokenIgnoringExpiry(tok) ==
    IF tok.kind # "jwt" \/ ~tok.signed THEN "None"
    ELSE IF tok.user_id = "absent" THEN "KeyError"
    ELSE tok.user_id

\* AuthService.verify_token: the payload's user_id, "None" when jwt.decode
\* raises ExpiredSignatureError or InvalidTokenError, "KeyError" when the
\* payload has no user_id (the exception leaves verify_token)
VerifyToken(tok) ==
    IF tok.kind # "jwt" \/ ~tok.signed \/ tok.expired THEN "None"
    ELSE IF tok.user_id = "absent" THEN "KeyError"
    ELSE tok.user_id

\* jsonify({'error': msg}), the body the decorators of auth.py return
ErrorOnly(msg) == {<<"error", msg>>}

NoAuthReq == [header |-> [present |-> FALSE, scheme |-> "", rest |-> <<>>],
              guard |-> "none", raises |-> FALSE]

NoAuthResp == [status |-> 0, body |-> {}, tokenPassed |-> FALSE, invoked |-> FALSE]

AuthResponse(status, body, passed, invoked) ==
    [status |-> status, body |-> body, tokenPassed |-> passed, invoked |-> invoked]

\* the route function, with the try/except every route of api_routes.py has
RouteHandler(raises) ==
    IF raises
    THEN AuthResponse(500, Fail("Failed to get profile"), TRUE, TRUE)
    ELSE AuthResponse(200, Ok({}), TRUE, TRUE)

\* admin_required / premium_required around the route function
TierGuard(guard, uid, raises) ==
    IF guard = "admin" /\ Tier(uid) # "admin"
    THEN AuthResponse(403, ErrorOnly("Admin privileges required"), TRUE, FALSE)
    ELSE IF guard = "premium" /\ Tier(uid) \notin PremiumTiers
    THEN AuthResponse(403, ErrorOnly("Premium subscription required"), TRUE, FALSE)
    ELSE RouteHandler(raises)

\* token_required.decorated
TokenRequired(header, guard, raises) ==
    IF header.present /\ header.rest = <<>>
    THEN AuthResponse(401, ErrorOnly("Invalid token format"), FALSE, FALSE)
    ELSE IF ~header.present \/ header.rest[1].kind = "empty"
    THEN AuthResponse(401, ErrorOnly("Token is missing"), FALSE, FALSE)
    ELSE LET uid == VerifyToken(header.rest[1])
         IN IF uid = "KeyError"
            THEN AuthResponse(401, ErrorOnly("Token verification failed"), FALSE, FALSE)
            ELSE IF uid = "None" \/ uid = ""
            THEN AuthResponse(401, ErrorOnly("Token is invalid or expired"), FALSE, FALSE)
            ELSE IF uid \notin Users \/ accounts[uid] # "active"
            THEN AuthResponse(401, ErrorOnly("User not found or inactive"), FALSE, FALSE)
            ELSE TierGuard(guard, uid, raises)

\* a request to an endpoint decorated with token_required and, for guard
\* "premium" or "admin", the tier decorator under it
ProtectedRequest(header, guard, raises) ==
    /\ authReq' = [header |-> header, guard |-> guard, raises |-> raises]
    /\ authResp' = TokenRequired(header, guard, raises)
    /\ UNCHANGED accounts

\* a request to a URL no route matches under /api: app.errorhandler(404)
UnknownEndpoint ==
    /\ authReq' = [NoAuthReq EXCEPT !.guard = "unrouted"]
    /\ authResp' = AuthResponse(404, Fail("Endpoint not found")
                                      \cup {<<"message", "Please check the API documentation">>},
                                 FALSE, FALSE)
    /\ UNCHANGED accounts

\* what the decorated endpoints leave alone
notAuth ==
    <<pfVars, rateVars, fetchVars, opt, risk, optWeights, varCalc, stress,
      streaming, authz, registration, refresh, twoFactor, lastCall, ws>>

AuthInit ==
    /\ accounts \in [Users -> {"active", "inactive", "none"}]
    /\ authReq = NoAuthReq
    /\ authResp = NoAuthResp

AuthNext ==
    \/ \E h \in Headers, g \in {"none", "premium", "admin"}, r \in BOOLEAN :
           ProtectedRequest(h, g, r) /\ UNCHANGED notAuth
    \/ UnknownEndpoint /\ UNCHANGED notAuth

---------------------------------------------------------------------------
\* The in-memory rate limiter (auth.py) in front of register and login.
\* Requests are served one at a time, each by one action.

\* bounds of the rate-limiter state space
MaxAllowed == 11
MaxClock == 300

\* @rate_limit(limit=5, window=300) on register, api_routes.py line 42
RegisterLimit == 5
\* @rate_limit(limit=10, window=300) on login, api_routes.py line 87
LoginLimit == 10
\* the window both decorators pass, in seconds
Window == 300

\* request.remote_addr
Keys == {"10.0.0.1", "10.0.0.2"}

RateLimitedEndpoints == {"register", "login"}

Limit(endpoint) == IF endpoint = "register" THEN RegisterLimit ELSE LoginLimit

\* how far the wall clock moves between two requests
TickSteps == {150, 300}

\* request bodies: an empty JSON object, or data the handler turns down without
\* writing to the database (a missing field, a wrong password)
Bodies == {"empty", "rejected"}

\* register() and login() on such a body
HandlerResponse(endpoint, reqBody) ==
    IF reqBody = "empty"
    THEN [status |-> 400, body |-> Fail("No data provided")]
    ELSE IF endpoint = "register"
    THEN [status |-> 400,
          body |-> Fail("Username, email, and password are required")]
    ELSE [status |-> 401, body |-> Fail("Invalid credentials")]

\* is_allowed keeping every recorded request whatever its age
PruneSkipped(times, now, window) == times

\* is_allowed lines 256-259: the recorded requests younger than the window
Prune(times, now, window) ==
    SelectSeq(times, LAMBDA t : now - t < window)

\* is_allowed refusing only above the limit
LimitExceededAbove(times, limit) == Len(times) > limit

\* is_allowed line 262
LimitExceeded(times, limit) == Len(times) >= limit

\* RateLimiter.is_allowed on the dict reqs: the verdict and the dict after it
IsAllowed(reqs, key, limit, window, now) ==
    LET kept == Prune(reqs[key], now, window)
    IN IF LimitExceeded(kept, limit)
       THEN [allowed |-> FALSE, requests |-> [reqs EXCEPT ![key] = kept]]
       ELSE [allowed |-> TRUE,
             requests |-> [reqs EXCEPT ![key] = Append(kept, now)]]

\* the 429 body of the rate_limit decorator
RateLimitBody(limit, window) ==
    {<<"error", "Rate limit exceeded">>, <<"limit", ToString(limit)>>,
     <<"window", ToString(window)>>}

\* rate_limit.decorated around the route function, on the limiter state reqs
RateLimit(reqs, endpoint, key, reqBody, now) ==
    LET verdict == IsAllowed(reqs, key, Limit(endpoint), Window, now)
        h == HandlerResponse(endpoint, reqBody)
    IN IF ~verdict.allowed
       THEN [requests |-> verdict.requests, status |-> 429,
             body |-> RateLimitBody(Limit(endpoint), Window), invoked |-> FALSE]
       ELSE [requests |-> verdict.requests, status |-> h.status,
             body |-> h.body, invoked |-> TRUE]

\* RateLimiter.__init__ as seen through is_allowed: no key has an entry
NoRequests == [k \in Keys |-> <<>>]

NoRateResp == [endpoint |-> "none", key |-> "", reqBody |-> "", at |-> 0,
               status |-> 0, body |-> {}, invoked |-> FALSE]

TotalAllowed ==
    LET RECURSIVE Sum(_)
        Sum(S) == IF S = {} THEN 0
                  ELSE LET k == CHOOSE x \in S : TRUE
                       IN Len(allowedLog[k]) + Sum(S \ {k})
    IN Sum(Keys)

\* POST /auth/register or /auth/login from address key
RateLimitedRequest(endpoint, key, reqBody) ==
    LET r == RateLimit(requests, endpoint, key, reqBody, clock)
    IN /\ TotalAllowed < MaxAllowed
       /\ requests' = r.requests
       /\ rateResp' = [endpoint |-> endpoint, key |-> key, reqBody |-> reqBody,
                       at |-> clock, status |-> r.status, body |-> r.body,
                       invoked |-> r.invoked]
       /\ allowedLog' = IF r.invoked
                        THEN [allowedLog EXCEPT ![key] = Append(@, clock)]
                        ELSE allowedLog
       /\ UNCHANGED clock

\* time passes between requests
Tick(d) ==
    /\ clock + d <= MaxClock
    /\ clock' = clock + d
    /\ UNCHANGED <<requests, allowedLog, rateResp>>

\* what the rate-limited endpoints leave alone
notRate ==
    <<pfVars, authVars, fetchVars, opt, risk, optWeights, varCalc, stress,
      streaming, authz, registration, refresh, twoFactor, lastCall, ws>>

RateInit ==
    /\ requests = NoRequests
    /\ clock = 0
    /\ allowedLog = NoRequests
    /\ rateResp = NoRateResp

RateNext ==
    \/ \E e \in RateLimitedEndpoints, k \in Keys, b \in Bodies :
           RateLimitedRequest(e, k, b) /\ UNCHANGED notRate
    \/ \E d \in TickSteps : Tick(d) /\ UNCHANGED notRate

---------------------------------------------------------------------------
\* Market-data fetchers (data_pipeline/crypto_api.py, stock_api.py,
\* data_fetcher.py): one fetch_data call, step by step

\* bound on the outbound calls of one fetch_data call
MaxCalls == 3

FetchTargets ==
    {[fetcher |-> "crypto", symbol |-> "bitcoin"],
     [fetcher |-> "crypto", symbol |-> "ethereum"],
     [fetcher |-> "stock", symbol |-> "AAPL"]}

FetchSymbols == {t.symbol : t \in FetchTargets}

\* what session.get(url) can end with: a connection error raised by
\* requests, or a response with a status code and a body
HttpOutcomes ==
    {"connection_error", "200_chart", "200_no_rows", "200_other_json",
     "200_not_json", "404", "429", "500"}

\* what api_client.call_api can end with
ApiOutcomes == {"exception", "chart", "missing_points", "other_json"}

ErrorOutcomes == {"connection_error", "404", "429", "500", "exception"}

HttpErrorStatuses == {"404", "429", "500"}

NoFetch == [pc |-> "idle", fetcher |-> "", symbol |-> "", calls |-> 0,
            outcome |-> "", slept |-> FALSE, result |-> ""]

\* _handle_request_error going back to the request after its sleep
AfterHttpErrorRetrying(outcome) ==
    IF outcome = "429" THEN "request" ELSE "done"

\* _handle_request_error on an error status: the HTTPError is re-raised and
\* the except clause of fetch_data ends the call
AfterHttpError(outcome) == "done"

\* fetch_data up to the request: _load_from_cache returns the file when it
\* exists, is younger than an hour and parses
FetchData(target) ==
    /\ fetch.pc \in {"idle", "done"}
    /\ fetch' = IF cache[target.symbol] = "fresh"
                THEN [NoFetch EXCEPT !.pc = "done", !.fetcher = target.fetcher,
                                     !.symbol = target.symbol,
                                     !.result = "cached"]
                ELSE [NoFetch EXCEPT !.pc = "request",
                                     !.fetcher = target.fetcher,
                                     !.symbol = target.symbol]
    /\ UNCHANGED cache

\* CryptoDataFetcher: response = self.session.get(url, params=params)
HttpGet(outcome) ==
    /\ fetch.pc = "request"
    /\ fetch.fetcher = "crypto"
    /\ fetch.calls < MaxCalls
    /\ fetch' = IF outcome = "connection_error"
                THEN [fetch EXCEPT !.calls = @ + 1, !.outcome = outcome,
                                   !.pc = "done", !.result = "empty"]
                ELSE [fetch EXCEPT !.calls = @ + 1, !.outcome = outcome,
                                   !.pc = "handle"]
    /\ UNCHANGED cache

\* DataFetcher._handle_request_error(response, symbol)
HandleRequestError ==
    /\ fetch.pc = "handle"
    /\ fetch' = IF fetch.outcome \in HttpErrorStatuses
                THEN LET next == AfterHttpError(fetch.outcome)
                     IN [fetch EXCEPT !.slept = (fetch.outcome = "429"),
                                      !.pc = next,
                                      !.result = IF next = "done" THEN "empty"
                                                 ELSE @]
                ELSE [fetch EXCEPT !.pc = "parse"]
    /\ UNCHANGED cache

\* StockDataFetcher: response = self.api_client.call_api(...)
CallApi(outcome) ==
    /\ fetch.pc = "request"
    /\ fetch.fetcher = "stock"
    /\ fetch.calls < MaxCalls
    /\ fetch' = IF outcome = "exception"
                THEN [fetch EXCEPT !.calls = @ + 1, !.outcome = outcome,
                                   !.pc = "done", !.result = "empty"]
                ELSE [fetch EXCEPT !.calls = @ + 1, !.outcome = outcome,
                                   !.pc = "parse"]
    /\ UNCHANGED cache

\* the rest of fetch_data: the DataFrame is built, validated and, when it
\* has rows, written to the cache
ProcessResponse ==
    /\ fetch.pc = "parse"
    /\ IF fetch.outcome \in {"200_chart", "chart"}
       THEN /\ fetch' = [fetch EXCEPT !.pc = "done", !.result = "data"]
            /\ cache' = [cache EXCEPT ![fetch.symbol] = "fresh"]
       ELSE /\ fetch' = [fetch EXCEPT !.pc = "done", !.result = "empty"]
            /\ UNCHANGED cache

\* an hour passes since the cache file of sym was written
CacheExpires(sym) ==
    /\ cache[sym] \in {"fresh", "unreadable"}
    /\ cache' = [cache EXCEPT ![sym] = "stale"]
    /\ UNCHANGED fetch

\* the cache file of sym is overwritten with something read_csv rejects
CacheDamaged(sym) ==
    /\ cache[sym] # "none"
    /\ cache[sym] # "unreadable"
    /\ cache' = [cache EXCEPT ![sym] = "unreadable"]
    /\ UNCHANGED fetch

\* what the fetchers leave alone
notFetch ==
    <<pfVars, authVars, rateVars, opt, risk, optWeights, varCalc, stress,
      streaming, authz, registration, refresh, twoFactor, lastCall, ws>>

FetchInit ==
    /\ cache \in [FetchSymbols -> {"none", "fresh"}]
    /\ fetch = NoFetch

FetchNext ==
    \/ \E t \in FetchTargets : FetchData(t) /\ UNCHANGED notFetch
    \/ \E o \in HttpOutcomes : HttpGet(o) /\ UNCHANGED notFetch
    \/ HandleRequestError /\ UNCHANGED notFetch
    \/ \E o \in ApiOutcomes : CallApi(o) /\ UNCHANGED notFetch
    \/ ProcessResponse /\ UNCHANGED notFetch
    \/ \E s \in FetchSymbols : CacheExpires(s) /\ UNCHANGED notFetch
    \/ \E s \in FetchSymbols : CacheDamaged(s) /\ UNCHANGED notFetch

---------------------------------------------------------------------------
\* The portfolio-optimization routines that call a numerical solver:
\*   "PortfolioOptimizer"            ai_models/advanced_ai_models.py
\*   "PortfolioService"              backend/portfolio_service.py, the
\*                                   optimize_portfolio(returns_data) variant
\*   "PortfolioOptimizationService"  backend/financial_services.py

OptRoutines ==
    {"PortfolioOptimizer", "PortfolioService", "PortfolioOptimizationService"}

Objectives == {"max_sharpe", "min_variance", "max_return", "other"}

\* problem.status after cvxpy's problem.solve(); "solver_error" stands for
\* solve() raising cvxpy's SolverError
CvxpyStatuses ==
    {"optimal", "optimal_inaccurate", "infeasible", "infeasible_inaccurate",
     "unbounded", "unbounded_inaccurate", "solver_error"}

\* result.success of scipy.optimize.minimize
ScipyStatuses == {"success", "failed"}

\* the solver a started call runs: cvxpy, or scipy when PortfolioOptimizer
\* cannot import cvxpy
SolverOf(call) ==
    IF call.routine = "PortfolioOptimizationService" THEN "scipy"
    ELSE IF call.routine = "PortfolioOptimizer" /\ ~call.cvxpy THEN "scipy"
    ELSE "cvxpy"

NoOpt == [pc |-> "idle", routine |-> "", objective |-> "", cvxpy |-> TRUE,
          emptyData |-> FALSE, status |-> "", solves |-> 0, body |-> {},
          weights |-> FALSE, raised |-> FALSE]

Returned(call, body, weights) ==
    [call EXCEPT !.pc = "done", !.body = body, !.weights = weights]

Raised(call) == [call EXCEPT !.pc = "done", !.raised = TRUE]

\* the call up to solve(): inputs are checked and the problem is built
StartOptimization(routine, objective, cvxpy, emptyData) ==
    LET call == [NoOpt EXCEPT !.routine = routine, !.objective = objective,
                              !.cvxpy = cvxpy, !.emptyData = emptyData]
    IN /\ opt.pc \in {"idle", "done"}
       /\ opt' =
            IF routine = "PortfolioService" /\ emptyData
            THEN Returned(call, Fail("Returns data is empty"), FALSE)
            ELSE IF routine = "PortfolioOptimizer" /\ objective = "other"
            THEN IF cvxpy
                 THEN Returned(call, Fail("Unknown objective: other"), FALSE)
                 ELSE Raised(call)
            ELSE [call EXCEPT !.pc = "solve"]

\* problem.solve() / minimize(...)
Solve(status) ==
    /\ opt.pc = "solve"
    /\ status \in (IF SolverOf(opt) = "cvxpy" THEN CvxpyStatuses
                   ELSE ScipyStatuses)
    /\ opt' = [opt EXCEPT !.pc = "finish", !.status = status,
                          !.solves = @ + 1]

\* PortfolioOptimizer.optimize_portfolio after problem.solve(), and
\* _optimize_with_scipy after minimize
PortfolioOptimizerResult(call) ==
    IF call.status \in {"optimal", "success"}
    THEN Returned(call, Ok({<<"weights", "w">>}), TRUE)
    ELSE IF call.status = "solver_error"
    THEN Returned(call, Fail("SolverError"), FALSE)
    ELSE IF call.status = "failed"
    THEN Returned(call, Fail("Scipy optimization failed"), FALSE)
    ELSE Returned(call, Fail("Optimization failed with status"), FALSE)

\* PortfolioService.optimize_portfolio(returns_data) after problem.solve()
PortfolioServiceResult(call) ==
    IF call.status = "solver_error"
    THEN Returned(call, Fail("Optimization failed"), FALSE)
    ELSE IF call.status \notin {"optimal", "optimal_inaccurate"}
    THEN Returned(call, Fail("Optimization failed with status"), FALSE)
    ELSE Returned(call, Ok({<<"weights", "w">>}), TRUE)

\* PortfolioOptimizationService.optimize_portfolio after minimize: a
\* failed result raises ValueError, which the except clause logs and re-raises
PortfolioOptimizationServiceResult(call) ==
    IF call.status # "success"
    THEN Raised(call)
    ELSE Returned(call, {<<"optimal_weights", "w">>}, TRUE)

FinishOptimization ==
    /\ opt.pc = "finish"
    /\ opt' = CASE opt.routine = "PortfolioOptimizer" ->
                     PortfolioOptimizerResult(opt)
                [] opt.routine = "PortfolioService" ->
                     PortfolioServiceResult(opt)
                [] OTHER -> PortfolioOptimizationServiceResult(opt)

\* what the optimizers leave alone
notOpt ==
    <<pfVars, authVars, rateVars, fetchVars, risk, optWeights, varCalc,
      stress, streaming, authz, registration, refresh, twoFactor, lastCall, ws>>

OptInit == opt = NoOpt

OptNext ==
    \/ \E r \in OptRoutines, o \in Objectives, c \in BOOLEAN, e \in BOOLEAN :
           StartOptimization(r, o, c, e) /\ UNCHANGED notOpt
    \/ \E s \in CvxpyStatuses \cup ScipyStatuses : Solve(s) /\ UNCHANGED notOpt
    \/ FinishOptimization /\ UNCHANGED notOpt

---------------------------------------------------------------------------
\* RiskManagementService.calculate_var and calculate_portfolio_metrics
\* (backend/risk_management.py)

\* bound on the daily price rows of one asset
MaxPriceRows == 32

\* the sample size both routines require, risk_management.py lines 40, 94
MinObservations == 30

\* numbers of price rows an asset may have in the look-back period
RowCounts == (0 .. 3) \cup ((MinObservations - 1) .. MaxPriceRows)

\* a holding as the risk service sees it: the price rows of its asset and
\* whether its market_value is zero (or NULL)
RiskHoldings == [rows : RowCounts, worthless : BOOLEAN]

\* the holdings of a portfolio, in query order
HoldingLists ==
    {<<>>} \cup {<<h>> : h \in RiskHoldings}
    \cup {<<h1, h2>> : h1 \in RiskHoldings, h2 \in RiskHoldings}

VarMethods == {"historical", "parametric", "monte_carlo", "bogus"}

\* len() of what a routine returned, and None
None == -1

\* _get_asset_returns: np.diff over the closes, None under two rows
AssetReturns(rows) == IF rows < 2 THEN None ELSE rows - 1

\* numpy addition of two arrays of these lengths: the broadcast length, or
\* None for the ValueError that _get_portfolio_returns turns into None
BroadcastLen(a, b) ==
    IF a = b THEN a
    ELSE IF a = 1 THEN b
    ELSE IF b = 1 THEN a
    ELSE None

\* _get_portfolio_returns: the length of the weighted return series
PortfolioReturns(hs) ==
    LET used == SelectSeq(hs, LAMBDA h : AssetReturns(h.rows) # None)
        weightless == \A i \in DOMAIN used : used[i].worthless
    IN IF Len(hs) = 0 \/ Len(used) = 0 \/ weightless THEN None
       ELSE IF Len(used) = 1 THEN AssetReturns(used[1].rows)
       ELSE BroadcastLen(AssetReturns(used[1].rows), AssetReturns(used[2].rows))

\* the sample-size guard checking for None only
SampleMissing(n) == n = None

\* portfolio_returns is None or len(portfolio_returns) < 30
SampleTooSmall(n) == n = None \/ n < MinObservations

NoRisk == [op |-> "none", holdings |-> <<>>, method |-> "", observations |-> None,
           body |-> {}, computed |-> FALSE]

RiskResult(op, hs, method, body, computed) ==
    [op |-> op, holdings |-> hs, method |-> method,
     observations |-> PortfolioReturns(hs), body |-> body,
     computed |-> computed]

\* calculate_var(portfolio_id, method=method) on a portfolio holding hs
CalculateVar(hs, method) ==
    LET n == PortfolioReturns(hs)
        reply(body, computed) == RiskResult("calculate_var", hs, method, body, computed)
    IN risk' =
         IF Len(hs) = 0
         THEN reply(Fail("No holdings found in portfolio"), FALSE)
         ELSE IF SampleTooSmall(n)
         THEN reply(Fail("Insufficient historical data for VaR calculation"),
                    FALSE)
         ELSE IF method = "bogus"
         THEN reply(Fail("Invalid VaR method"), FALSE)
         ELSE reply(Ok({<<"var", method>>}), TRUE)

\* calculate_portfolio_metrics(portfolio_id) on a portfolio holding hs
CalculatePortfolioMetrics(hs) ==
    LET n == PortfolioReturns(hs)
        reply(body, computed) ==
            RiskResult("calculate_portfolio_metrics", hs, "", body, computed)
    IN risk' =
         IF SampleTooSmall(n)
         THEN reply(Fail("Insufficient historical data"), FALSE)
         ELSE reply(Ok({<<"metrics", "m">>}), TRUE)

\* what the risk service leaves alone
notRisk ==
    <<pfVars, authVars, rateVars, fetchVars, opt, optWeights, varCalc,
      stress, streaming, authz, registration, refresh, twoFactor, lastCall, ws>>

RiskInit == risk = NoRisk

RiskNext ==
    \/ \E hs \in HoldingLists, m \in VarMethods :
           CalculateVar(hs, m) /\ UNCHANGED notRisk
    \/ \E hs \in HoldingLists :
           CalculatePortfolioMetrics(hs) /\ UNCHANGED notRisk

---------------------------------------------------------------------------
\* PortfolioService._optimize_weights behind the optimize endpoint, for two
\* priced holdings.  Expected returns and variances are whole units; the
\* annualisation factor 252 scales both and cancels in every ratio below.
\* A weight is a fraction num / den, or NaN as numpy computes it.

\* bounds of the inputs
MaxReturn == 2
MaxVariance == 2

ReturnVectors == {<<a, b>> : a \in 0 .. MaxReturn, b \in 0 .. MaxReturn}

\* the diagonal of the covariance matrix
VarianceVectors == {<<a, b>> : a \in 0 .. MaxVariance, b \in 0 .. MaxVariance}

\* risk_tolerance in tenths, 0.0 to 1.0
RiskTenths == 0 .. 10

NaN == "NaN"

Sign(x) == IF x > 0 THEN 1 ELSE IF x < 0 THEN -1 ELSE 0

\* (expected_returns - mean) / std for two values: the deviation of each is
\* half their difference and so is the standard deviation, the quotient is
\* +1 or -1; for equal values it is 0 / 0
ReturnScores(er) ==
    IF er[1] = er[2] THEN NaN
    ELSE <<Sign(er[1] - er[2]), Sign(er[2] - er[1])>>

\* np.diag(cov) / np.mean(np.diag(cov)) times the sum of the variances:
\* twice each variance; 0 / 0 when both variances are 0
RiskScoresTimesSum(var) ==
    IF var[1] + var[2] = 0 THEN NaN
    ELSE <<2 * var[1], 2 * var[2]>>

\* _optimize_weights lines 602-620.  With V the sum of the variances, the
\* unnormalised weight base + 0.1 * combined, times 100 V, is
\*   50 V + k * score * V - (10 - k) * 2 * variance
\* which np.maximum clips at 0 and the last line divides by the sum.
OptimizeWeights(er, var, k) ==
    LET rs == ReturnScores(er)
        ks == RiskScoresTimesSum(var)
        V == var[1] + var[2]
        raw(i) == 50 * V + k * rs[i] * V - (10 - k) * ks[i]
        clipped(i) == IF raw(i) > 0 THEN raw(i) ELSE 0
    IN IF rs = NaN \/ ks = NaN THEN NaN
       ELSE IF clipped(1) + clipped(2) = 0 THEN NaN
       ELSE [num |-> <<clipped(1), clipped(2)>>,
             den |-> clipped(1) + clipped(2)]

NoWeights == [er |-> <<0, 0>>, var |-> <<0, 0>>, k |-> 0, success |-> FALSE,
              result |-> NaN]

\* PortfolioService.optimize_portfolio(portfolio_id, ...) from the returns
\* matrix on: no exception is raised, the result reports success
OptimizeHoldings(er, var, k) ==
    optWeights' = [er |-> er, var |-> var, k |-> k, success |-> TRUE,
                result |-> OptimizeWeights(er, var, k)]

\* what the weight optimization leaves alone
notWeights ==
    <<pfVars, authVars, rateVars, fetchVars, opt, risk, varCalc, stress,
      streaming, authz, registration, refresh, twoFactor, lastCall, ws>>

WeightsInit == optWeights = NoWeights

WeightsNext ==
    \E er \in ReturnVectors, var \in VarianceVectors, k \in RiskTenths :
        OptimizeHoldings(er, var, k) /\ UNCHANGED notWeights

---------------------------------------------------------------------------
\* The numbers of RiskManagementService.calculate_var: _historical_var,
\* _parametric_var, _monte_carlo_var and _calculate_expected_shortfall
\* (backend/risk_management.py).  A daily return is a whole number of
\* percent; a return series is given by how many of its observations take
\* each value.  A computed value is the triple <<p, r, d>> standing for
\* (p - sqrt(r)) / d with d > 0, which keeps mean - z * std exact.

\* bound on the length of a return series
MaxSample == 31

SampleSizes == MinObservations .. MaxSample

ReturnValues == {-1, 0, 1}

\* counts of the observations at -1, 0 and +1
ReturnSeries ==
    {<<a, b, n - a - b>> : <<a, b, n>> \in
        {t \in (0 .. MaxSample) \X (0 .. MaxSample) \X SampleSizes :
            t[1] + t[2] <= t[3]}}

SeriesLen(s) == s[1] + s[2] + s[3]

\* np.sort(returns)[i], i counted from 0
AtRank(s, i) == IF i < s[1] THEN -1 ELSE IF i < s[1] + s[2] THEN 0 ELSE 1

\* confidence_level in percent
ConfidenceLevels == {95, 99}

\* time_horizon in days; np.sqrt of each is a whole number
Horizons == {1, 4}

SqrtHorizon(h) == IF h = 4 THEN 2 ELSE 1

ComputedMethods == {"historical", "parametric", "monte_carlo"}

\* 100 * np.percentile(returns, (1 - confidence) * 100): linear
\* interpolation between the order statistics around (n - 1) * q / 100
Percentile100(s, c) ==
    LET pos == (100 - c) * (SeriesLen(s) - 1)
        lo == pos \div 100
        hi == IF lo + 1 < SeriesLen(s) THEN lo + 1 ELSE lo
    IN 100 * AtRank(s, lo) + (pos % 100) * (AtRank(s, hi) - AtRank(s, lo))

\* _historical_var: the percentile of returns * sqrt(time_horizon)
HistoricalVar(s, c, h) == <<SqrtHorizon(h) * Percentile100(s, c), 0, 100>>

\* -100 * stats.norm.ppf(1 - confidence_level), to the nearest whole number
ZCenti(c) == IF c = 99 THEN 233 ELSE 164

SeriesSum(s) == s[3] - s[1]

SumOfSquares(s) == s[3] + s[1]

\* _parametric_var with the quantile z / 100 of the standard normal taken
\* negative: mean * h - z * std * sqrt(h), where mean = S / n and
\* std = sqrt(n * Q - S * S) / n
NormalVar(s, z, h) ==
    LET n == SeriesLen(s)
        S == SeriesSum(s)
    IN <<100 * h * S, z * z * h * (n * SumOfSquares(s) - S * S), 100 * n>>

ParametricVar(s, c, h) == NormalVar(s, ZCenti(c), h)

\* _monte_carlo_var draws mean + std * N(0, 1) with a fixed seed, so the
\* percentile of the simulated sums is mean * h + std * sqrt(h) * q, q the
\* sample quantile of 10000 standardised sums: the normal quantile up to a
\* sampling error
McError == 5

McQuantiles(c) == {ZCenti(c) - McError, ZCenti(c), ZCenti(c) + McError}

\* _calculate_expected_shortfall: the mean of the scaled returns at or
\* under their percentile, the percentile itself when there is none
ExpectedShortfall(s, c, h) ==
    LET t == Percentile100(s, c)
        tail == {v \in ReturnValues : 100 * v <= t}
        count(v) == IF v \in tail THEN s[v + 2] ELSE 0
        len == count(-1) + count(0) + count(1)
        sum == count(1) - count(-1)
    IN IF len > 0 THEN <<SqrtHorizon(h) * sum, 0, len>>
       ELSE <<SqrtHorizon(h) * t, 0, 100>>

\* x <= y for a value x without square root, x[1] / x[3] <= (p - sqrt(r)) / d:
\* with gap = p * x[3] - d * x[1] it is gap >= 0 and r * x[3]^2 <= gap^2,
\* the squares compared through the quotient and remainder of gap by x[3]
LessEq(x, y) ==
    LET gap == y[1] * x[3] - y[3] * x[1]
        g == gap \div x[3]
        rem == gap % x[3]
        over == y[2] - g * g
    IN /\ gap >= 0
       /\ \/ over <= 0
          \/ /\ over <= 2 * g
             /\ over * x[3] * x[3] <= 2 * g * rem * x[3] + rem * rem

\* (p - sqrt(r)) / d <= 0
NonPositive(y) == y[1] <= 0 \/ y[1] * y[1] <= y[2]

NoValue == <<0, 0, 1>>

VarCalls ==
    [returns : ReturnSeries, method : ComputedMethods,
     confidence : ConfidenceLevels, horizon : Horizons,
     success : {FALSE}, value : {NoValue}, expected_shortfall : {NoValue}]

NoVarCalc ==
    [returns |-> <<0, 0, 0>>, method |-> "", confidence |-> 95, horizon |-> 1,
     success |-> FALSE, value |-> NoValue, expected_shortfall |-> NoValue]

VarIdle == varCalc = NoVarCalc

\* the success branch of calculate_var, lines 46-77
VarResult(value) ==
    varCalc' = [varCalc EXCEPT
        !.success = TRUE,
        !.value = value,
        !.expected_shortfall =
            ExpectedShortfall(varCalc.returns, varCalc.confidence,
                              varCalc.horizon)]

ComputeHistorical ==
    /\ ~varCalc.success
    /\ varCalc.method = "historical"
    /\ VarResult(HistoricalVar(varCalc.returns, varCalc.confidence,
                               varCalc.horizon))

ComputeParametric ==
    /\ ~varCalc.success
    /\ varCalc.method = "parametric"
    /\ VarResult(ParametricVar(varCalc.returns, varCalc.confidence,
                               varCalc.horizon))

ComputeMonteCarlo ==
    /\ ~varCalc.success
    /\ varCalc.method = "monte_carlo"
    /\ \E z \in McQuantiles(varCalc.confidence) :
           VarResult(NormalVar(varCalc.returns, z, varCalc.horizon))

\* what the computation leaves alone
notVar ==
    <<pfVars, authVars, rateVars, fetchVars, opt, risk, optWeights, stress,
      streaming, authz, registration, refresh, twoFactor, lastCall, ws>>

\* a call with returns of at least MinObservations observations
VarInit == varCalc \in VarCalls

VarNext ==
    \/ ComputeHistorical /\ UNCHANGED notVar
    \/ ComputeParametric /\ UNCHANGED notVar
    \/ ComputeMonteCarlo /\ UNCHANGED notVar

---------------------------------------------------------------------------
\* RiskManagementService.stress_test_portfolio (backend/risk_management.py)
\* for one scenario.  A market value is a whole amount, a shock a whole
\* number of percent, and a stressed value is kept times 100.

\* bound on the market value of a holding
MaxMarketValue == 2

StressSymbols == {"AAPL", "BTC"}

\* PortfolioHolding.market_value, None for NULL
MarketValues == {None} \cup (0 .. MaxMarketValue)

StressHoldings == [symbol : StressSymbols, market_value : MarketValues]

\* the holdings of the portfolio, one row per asset
StressHoldingLists ==
    {<<>>} \cup {<<h>> : h \in StressHoldings}
    \cup {<<h1, h2>> : <<h1, h2>> \in
            {p \in StressHoldings \X StressHoldings :
                p[1].symbol # p[2].symbol}}

\* shocks in percent: -0.5, -0.1, 0 and +0.2
Shocks == {-50, -10, 0, 20}

\* scenario.get("asset_shocks", {}): a shock for some of the symbols
AssetShocks == UNION {[d -> Shocks] : d \in SUBSET StressSymbols}

Scenarios == [market_shock : Shocks, asset_shocks : AssetShocks]

\* float(h.market_value or 0)
HoldingValue(h) == IF h.market_value = None THEN 0 ELSE h.market_value

\* sum(float(h.market_value or 0) for h in holdings)
CurrentValue(hs) ==
    IF Len(hs) = 0 THEN 0
    ELSE IF Len(hs) = 1 THEN HoldingValue(hs[1])
    ELSE HoldingValue(hs[1]) + HoldingValue(hs[2])

\* the asset-specific shock if there is one, the market shock otherwise
ShockOf(scenario, symbol) ==
    IF symbol \in DOMAIN scenario.asset_shocks
    THEN scenario.asset_shocks[symbol]
    ELSE scenario.market_shock

\* a holding value with the shock added to it instead of applied to it
StressedHoldingValueAdded(value, shock) == 100 * value + shock

\* 100 * current_holding_value * (1 + shock)
StressedHoldingValue(value, shock) == value * (100 + shock)

\* the loop over the holdings, lines 219-231
StressedValue(hs, scenario) ==
    LET one(i) == StressedHoldingValue(HoldingValue(hs[i]),
                                       ShockOf(scenario, hs[i].symbol))
    IN IF Len(hs) = 1 THEN one(1) ELSE one(1) + one(2)

NoStress ==
    [holdings |-> <<>>, scenario |-> [market_shock |-> 0, asset_shocks |-> <<>>],
     called |-> FALSE, body |-> {}, current_value |-> 0, stressed_value |-> 0]

StressCalls ==
    [holdings : StressHoldingLists, scenario : Scenarios, called : {FALSE},
     body : {{}}, current_value : {0}, stressed_value : {0}]

StressIdle == stress = NoStress

\* stress_test_portfolio(portfolio_id, [scenario])
StressTestPortfolio ==
    /\ ~stress.called
    /\ stress' =
         IF Len(stress.holdings) = 0
         THEN [stress EXCEPT !.called = TRUE,
                             !.body = Fail("No holdings found in portfolio")]
         ELSE IF CurrentValue(stress.holdings) = 0
         THEN [stress EXCEPT !.called = TRUE,
                             !.body = Fail("Portfolio has no market value")]
         ELSE [stress EXCEPT
                 !.called = TRUE,
                 !.body = Ok({<<"stress_test_results", "results">>}),
                 !.current_value = CurrentValue(stress.holdings),
                 !.stressed_value =
                     StressedValue(stress.holdings, stress.scenario)]

\* what the stress test leaves alone
notStress ==
    <<pfVars, authVars, rateVars, fetchVars, opt, risk, optWeights, varCalc,
      streaming, authz, registration, refresh, twoFactor, lastCall, ws>>

StressInit == stress \in StressCalls

StressNext == StressTestPortfolio /\ UNCHANGED notStress

---------------------------------------------------------------------------
\* PriceStreamManager (backend/websocket_service.py).  The coroutines run on
\* one event loop: a loop gives up control only at await asyncio.sleep, so
\* one pass of the while loop, from its test to its sleep, is one step.

\* bound on the number of start_price_streaming() calls
MaxLoops == 3

LoopIds == 1 .. MaxLoops

\* a coroutine of start_price_streaming: not called yet, suspended in
\* asyncio.sleep, or returned.  stopped: stop_price_streaming() was called
\* while it was suspended; late: it has broadcast since then
NewLoop == [pc |-> "new", stopped |-> FALSE, late |-> FALSE]

\* the body of the while loop: broadcast to the subscribers if there are
\* any, then sleep
Iteration(loop, subscribed) ==
    [loop EXCEPT !.pc = "sleeping", !.late = @ \/ (loop.stopped /\ subscribed)]

\* asyncio.sleep returns: the while test, then the body or the return
Resume(loop, is_running, subscribed) ==
    IF is_running THEN Iteration(loop, subscribed)
    ELSE [loop EXCEPT !.pc = "returned"]

StartPriceStreaming(l) ==
    /\ streaming.loops[l].pc = "new"
    /\ streaming' =
         [streaming EXCEPT
            !.is_running = TRUE,
            !.loops[l] = Iteration(@, streaming.subscribed)]

Wake(l) ==
    /\ streaming.loops[l].pc = "sleeping"
    /\ streaming' =
         [streaming EXCEPT
            !.loops[l] = Resume(@, streaming.is_running, streaming.subscribed)]

StopPriceStreaming ==
    streaming' =
        [streaming EXCEPT
           !.is_running = FALSE,
           !.loops = [l \in LoopIds |->
                        IF @[l].pc = "sleeping"
                        THEN [@[l] EXCEPT !.stopped = TRUE]
                        ELSE @[l]]]

\* handle_subscribe_prices / handle_unsubscribe_prices and disconnects, as
\* far as the stream sees them: price_subscribers is empty or not
SetSubscribed(b) == streaming' = [streaming EXCEPT !.subscribed = b]

\* what the stream leaves alone
notStream ==
    <<pfVars, authVars, rateVars, fetchVars, opt, risk, optWeights, varCalc,
      stress, authz, registration, refresh, twoFactor, lastCall, ws>>

StreamInit ==
    streaming = [is_running |-> FALSE, subscribed |-> FALSE,
                 loops |-> [l \in LoopIds |-> NewLoop]]

StreamNext ==
    \/ \E l \in LoopIds : StartPriceStreaming(l) /\ UNCHANGED notStream
    \/ \E l \in LoopIds : Wake(l) /\ UNCHANGED notStream
    \/ StopPriceStreaming /\ UNCHANGED notStream
    \/ \E b \in BOOLEAN : SetSubscribed(b) /\ UNCHANGED notStream

---------------------------------------------------------------------------
\* AuthorizationService (backend/security.py)

\* UserRole, and a value that is no key of ROLE_PERMISSIONS
Roles == {"admin", "portfolio_manager", "analyst", "client", "viewer"}

RoleInputs == Roles \cup {"guest"}

ROLE_PERMISSIONS ==
    [r \in Roles |->
        CASE r = "admin" ->
               {"user:create", "user:read", "user:update", "user:delete",
                "portfolio:create", "portfolio:read", "portfolio:update",
                "portfolio:delete", "transaction:create", "transaction:read",
                "transaction:update", "transaction:delete", "system:admin",
                "compliance:manage", "audit:read"}
          [] r = "portfolio_manager" ->
               {"user:read", "portfolio:create", "portfolio:read",
                "portfolio:update", "transaction:create", "transaction:read",
                "transaction:update", "compliance:read", "analytics:read"}
          [] r = "analyst" ->
               {"portfolio:read", "transaction:read", "analytics:read",
                "compliance:read"}
          [] r = "client" ->
               {"portfolio:read", "transaction:read", "analytics:read"}
          [] OTHER -> {"portfolio:read", "analytics:read"}]

\* every permission some role holds, and one that none holds
PermissionInputs == UNION {ROLE_PERMISSIONS[r] : r \in Roles} \cup {"report:export"}

\* permission in ROLE_PERMISSIONS.get(user_role, [])
has_permission(user_role, permission) ==
    user_role \in Roles /\ permission \in ROLE_PERMISSIONS[user_role]

ResourceTypes == {"portfolio", "transaction", "report"}

\* the user_id of the row Portfolio.query.get / Transaction.query.get
\* returns, "missing" when it returns None
ResourceOwners == Users \cup {"missing"}

\* portfolio and portfolio.user_id == user.id
OwnedBy(owner, user_id) ==
    IF owner = "missing" THEN "None"
    ELSE IF owner = user_id THEN "True" ELSE "False"

check_resource_access(role, user_id, resource_type, owner) ==
    IF role = "admin" THEN "True"
    ELSE IF resource_type = "portfolio" /\ role = "portfolio_manager"
    THEN OwnedBy(owner, user_id)
    ELSE IF role = "client" /\ resource_type \in {"portfolio", "transaction"}
    THEN OwnedBy(owner, user_id)
    ELSE "False"

NoAuthz ==
    [op |-> "none", role |-> "", permission |-> "", user_id |-> "",
     resource_type |-> "", owner |-> "", result |-> "None"]

HasPermissionCall(role, permission) ==
    authz' = [NoAuthz EXCEPT
                !.op = "has_permission", !.role = role,
                !.permission = permission,
                !.result = IF has_permission(role, permission)
                           THEN "True" ELSE "False"]

CheckResourceAccessCall(role, user_id, resource_type, owner) ==
    authz' = [NoAuthz EXCEPT
                !.op = "check_resource_access", !.role = role,
                !.user_id = user_id, !.resource_type = resource_type,
                !.owner = owner,
                !.result = check_resource_access(role, user_id, resource_type,
                                                 owner)]

\* what the authorization service leaves alone
notAuthz ==
    <<pfVars, authVars, rateVars, fetchVars, opt, risk, optWeights, varCalc,
      stress, streaming, registration, refresh, twoFactor, lastCall, ws>>

AuthzInit == authz = NoAuthz

AuthzNext ==
    \/ \E r \in RoleInputs, p \in PermissionInputs :
           HasPermissionCall(r, p) /\ UNCHANGED notAuthz
    \/ \E r \in Roles, u \in Users, t \in ResourceTypes, o \in ResourceOwners :
           CheckResourceAccessCall(r, u, t, o) /\ UNCHANGED notAuthz

---------------------------------------------------------------------------
\* AuthService.register_user (backend/auth.py) and the register route
\* (backend/api_routes.py).  A string is the sequence of its characters.

UpperCase ==
    {"A", "B", "C", "D", "E", "F", "G", "H", "I", "J", "K", "L", "M", "N",
     "O", "P", "Q", "R", "S", "T", "U", "V", "W", "X", "Y", "Z"}

LowerCase ==
    {"a", "b", "c", "d", "e", "f", "g", "h", "i", "j", "k", "l", "m", "n",
     "o", "p", "q", "r", "s", "t", "u", "v", "w", "x", "y", "z"}

Digits ==
    {"0", "1", "2", "3", "4", "5", "6", "7", "8", "9"}

\* [a-zA-Z0-9._%+-]
LocalChars == UpperCase \cup LowerCase \cup Digits \cup {".", "_", "%", "+", "-"}

\* [a-zA-Z0-9.-]
DomainChars == UpperCase \cup LowerCase \cup Digits \cup {".", "-"}

\* the pattern of validate_email without its anchors: local part, "@",
\* domain, ".", two or more letters
MatchesEmailPattern(s) ==
    \E i \in DOMAIN s, j \in DOMAIN s :
        /\ 1 < i /\ i + 1 < j /\ j + 2 <= Len(s)
        /\ s[i] = "@" /\ s[j] = "."
        /\ \A k \in 1 .. (i - 1) : s[k] \in LocalChars
        /\ \A k \in (i + 1) .. (j - 1) : s[k] \in DomainChars
        /\ \A k \in (j + 1) .. Len(s) : s[k] \in UpperCase \cup LowerCase

\* validate_email: re.match with ^ and $; $ also matches before a newline
\* that ends the string
validate_email(email) ==
    \/ MatchesEmailPattern(email)
    \/ /\ Len(email) > 0
       /\ email[Len(email)] = "\n"
       /\ MatchesEmailPattern(SubSeq(email, 1, Len(email) - 1))

Has(s, class) == \E k \in DOMAIN s : s[k] \in class

\* validate_password: its message, "Password is valid" for (True, ...)
validate_password(password) ==
    IF Len(password) < 8 THEN "Password must be at least 8 characters long"
    ELSE IF ~Has(password, UpperCase)
    THEN "Password must contain at least one uppercase letter"
    ELSE IF ~Has(password, LowerCase)
    THEN "Password must contain at least one lowercase letter"
    ELSE IF ~Has(password, Digits)
    THEN "Password must contain at least one digit"
    ELSE "Password is valid"

\* the inputs: a missing or empty field is the empty string
UsernameInputs == {<<>>, <<"a", "b">>, <<"b", "o", "b">>, <<"a", "m", "y">>}

EmailInputs ==
    {<<>>, <<"b", "@", "x", ".", "i", "o">>, <<"a", "@", "x", ".", "i", "o">>,
     <<"a", "@", "x", ".", "i">>, <<"a", "@", "x", ".", "i", "o", "\n">>}

PasswordInputs ==
    {<<>>, <<"P", "a", "s", "s", "w", "0", "r", "d">>, <<"P", "a", "s", "s", "0", "r", "d">>,
     <<"p", "a", "s", "s", "w", "0", "r", "d">>, <<"P", "A", "S", "S", "W", "0", "R", "D">>, <<"P", "a", "s", "s", "w", "o", "r", "d">>}

\* db.session.add(user), commit, and the tokens, lines 93-113
CreateUser(users, username, email) ==
    [users |-> users \cup {[username |-> username, email |-> email]},
     body |-> Ok({<<"user", "created">>, <<"access_token", "issued">>,
                  <<"refresh_token", "issued">>})]

\* register_user without its two look-ups of existing users
RegisterWithoutLookup(users, username, email, password, dbFails) ==
    LET reject(msg) == [users |-> users, body |-> Fail(msg)]
    IN IF Len(username) < 3
       THEN reject("Username must be at least 3 characters long")
       ELSE IF ~validate_email(email) THEN reject("Invalid email format")
       ELSE IF validate_password(password) # "Password is valid"
       THEN reject(validate_password(password))
       ELSE IF dbFails THEN reject("database error")
       ELSE CreateUser(users, username, email)

\* register_user: the users table afterwards and the dictionary returned;
\* dbFails: the commit raises, the except clause rolls back
register_user(users, username, email, password, dbFails) ==
    LET reject(msg) == [users |-> users, body |-> Fail(msg)]
    IN IF Len(username) < 3
       THEN reject("Username must be at least 3 characters long")
       ELSE IF ~validate_email(email) THEN reject("Invalid email format")
       ELSE IF validate_password(password) # "Password is valid"
       THEN reject(validate_password(password))
       ELSE IF \E u \in users : u.username = username
       THEN reject("Username already exists")
       ELSE IF \E u \in users : u.email = email
       THEN reject("Email already registered")
       ELSE IF dbFails THEN reject("database error")
       ELSE CreateUser(users, username, email)

\* what request.get_json() meets: a body that is not JSON, one that is
\* empty or {}, or an object with the fields
JsonBodies == {"malformed", "empty", "object"}

NoRegistration ==
    [users |-> {}, op |-> "none", json |-> "", username |-> <<>>,
     email |-> <<>>, password |-> <<>>, status |-> 0, body |-> {}]

Registered(op, json, username, email, password, users, status, body) ==
    registration' =
        [users |-> users, op |-> op, json |-> json, username |-> username,
         email |-> email, password |-> password, status |-> status,
         body |-> body]

\* AuthService.register_user called on its own
RegisterUser(username, email, password, dbFails) ==
    LET r == register_user(registration.users, username, email, password,
                           dbFails)
    IN Registered("register_user", "", username, email, password, r.users, 0,
                  r.body)

\* POST /api/v1/auth/register, behind its rate limit.  get_json() raises
\* BadRequest on a body that is not JSON, and the handler's except
\* Exception clause answers it
Register(json, username, email, password, dbFails) ==
    LET r == register_user(registration.users, username, email, password,
                           dbFails)
        reply(users, status, body) ==
            Registered("register", json, username, email, password, users,
                       status, body)
    IN IF json = "malformed"
       THEN reply(registration.users, 500, Fail("Registration failed"))
       ELSE IF json = "empty"
       THEN reply(registration.users, 400, Fail("No data provided"))
       ELSE IF Len(username) = 0 \/ Len(email) = 0 \/ Len(password) = 0
       THEN reply(registration.users, 400,
                  Fail("Username, email, and password are required"))
       ELSE IF <<"success", "true">> \in r.body
       THEN reply(r.users, 201, r.body)
       ELSE reply(r.users, 400, r.body)

\* what registration leaves alone
notReg ==
    <<pfVars, authVars, rateVars, fetchVars, opt, risk, optWeights, varCalc,
      stress, streaming, authz, refresh, twoFactor, lastCall, ws>>

RegInit == registration = NoRegistration

RegNext ==
    \/ \E u \in UsernameInputs, e \in EmailInputs, p \in PasswordInputs,
          f \in BOOLEAN :
           RegisterUser(u, e, p, f) /\ UNCHANGED notReg
    \/ \E j \in JsonBodies \ {"object"} :
           Register(j, <<>>, <<>>, <<>>, FALSE) /\ UNCHANGED notReg
    \/ \E u \in UsernameInputs, e \in EmailInputs, p \in PasswordInputs :
           Register("object", u, e, p, FALSE) /\ UNCHANGED notReg

---------------------------------------------------------------------------
\* AuthService.refresh_access_token (backend/auth.py)

\* User.query.get(user_id) finds a row and the row is active
ActiveUser(user_id) == user_id \in Users /\ accounts[user_id] = "active"

\* refresh_access_token without the test of the payload's type
RefreshAnyType(tok) ==
    IF tok.kind # "jwt" \/ ~tok.signed THEN Fail("Invalid refresh token")
    ELSE IF tok.expired THEN Fail("Refresh token expired")
    ELSE IF tok.user_id = "absent" THEN Fail("'user_id'")
    ELSE IF ~ActiveUser(tok.user_id) THEN Fail("User not found or inactive")
    ELSE Ok({<<"access_token", tok.user_id>>})

\* the dictionary refresh_access_token returns.  jwt.decode checks the
\* signature before the exp claim; a payload without user_id raises KeyError,
\* which the last except clause reports
refresh_access_token(tok) ==
    IF tok.kind # "jwt" \/ ~tok.signed THEN Fail("Invalid refresh token")
    ELSE IF tok.expired THEN Fail("Refresh token expired")
    ELSE IF tok.type # "refresh" THEN Fail("Invalid token type")
    ELSE IF tok.user_id = "absent" THEN Fail("'user_id'")
    ELSE IF ~ActiveUser(tok.user_id) THEN Fail("User not found or inactive")
    ELSE Ok({<<"access_token", tok.user_id>>})

NoRefresh ==
    [called |-> FALSE,
     token |-> [kind |-> "empty", user_id |-> "", type |-> "",
                signed |-> FALSE, expired |-> FALSE],
     body |-> {}]

RefreshIdle == refresh = NoRefresh

RefreshAccessToken(tok) ==
    refresh' = [called |-> TRUE, token |-> tok, body |-> refresh_access_token(tok)]

\* what refreshing leaves alone
notRefresh ==
    <<pfVars, authVars, rateVars, fetchVars, opt, risk, optWeights, varCalc,
      stress, streaming, authz, registration, twoFactor, lastCall, ws>>

RefreshNext == \E tok \in Tokens : RefreshAccessToken(tok) /\ UNCHANGED notRefresh

---------------------------------------------------------------------------
\* require_2fa and AuthenticationService.verify_2fa_token
\* (backend/security.py)

\* bound on the TOTP time steps (30 s each)
MaxStep == 3

TimeSteps == 0 .. MaxStep

Secrets == {"s1", "s2"}

\* the code a secret yields at a time step
TotpCodes == [kind : {"code"}, secret : Secrets, step : TimeSteps]

NoTotpHeader == [kind |-> "absent", secret |-> "", step |-> 0]

\* request.headers.get('X-TOTP-Token'): None, the empty string or a code
TotpHeaders ==
    {NoTotpHeader, [kind |-> "empty", secret |-> "", step |-> 0]}
    \cup TotpCodes

\* pyotp.TOTP(secret).verify(token, valid_window=1): the code of this time
\* step, of the one before or of the one after
verify_2fa_token(secret, token, now) ==
    /\ token.kind = "code"
    /\ token.secret = secret
    /\ token.step \in {now - 1, now, now + 1}

NoTwoFactor ==
    [authenticated |-> FALSE, two_factor_enabled |-> FALSE, secret |-> "s1",
     header |-> NoTotpHeader, now |-> 0, status |-> 0, body |-> {},
     invoked |-> FALSE]

\* require_2fa.decorated_function around a route that answers 200;
\* authenticated: g has current_user
Require2fa(authenticated, enabled, secret, header, now) ==
    LET reply(status, body, invoked) ==
            [authenticated |-> authenticated, two_factor_enabled |-> enabled,
             secret |-> secret, header |-> header, now |-> now,
             status |-> status, body |-> body, invoked |-> invoked]
    IN twoFactor' =
         IF ~authenticated
         THEN reply(401, ErrorOnly("Authentication required"), FALSE)
         ELSE IF ~enabled
         THEN reply(403, ErrorOnly("2FA required for this operation"), FALSE)
         ELSE IF header.kind \in {"absent", "empty"}
         THEN reply(403, ErrorOnly("2FA token required"), FALSE)
         ELSE reply(200, Ok({}), TRUE)

\* what the decorator leaves alone
notTwoFactor ==
    <<pfVars, authVars, rateVars, fetchVars, opt, risk, optWeights, varCalc,
      stress, streaming, authz, registration, refresh, lastCall, ws>>

TwoFactorInit == twoFactor = NoTwoFactor

TwoFactorNext ==
    \E a \in BOOLEAN, e \in BOOLEAN, s \in Secrets, h \in TotpHeaders,
       t \in TimeSteps :
        Require2fa(a, e, s, h, t) /\ UNCHANGED notTwoFactor

---------------------------------------------------------------------------
\* WebSocketService (backend/websocket_service.py).  Events are handled one
\* at a time; request.sid is the session the event came from.  ws.rooms is
\* the server's room membership, a set of <<session, room>>; ws.last is the
\* event just handled and what was emitted to its session.

Sessions == {"s1", "s2"}

\* the auth argument of connect: None, or a dict with a token
ConnectAuths ==
    [present : {FALSE}, token : {t \in Tokens : t.kind = "empty"}]
    \cup [present : {TRUE},
          token : {t \in Tokens : t.type = "access" /\ t.signed}]

\* the symbols lists of a price subscription
SymbolLists == {<<>>, <<"btc">>, <<"ETH">>, <<"btc", "ETH">>}

\* f"user_{user_id}"
UserRoom(uid) == "user_" \o uid

\* f"prices_{symbol}"
PriceRoom(symbol) == "prices_" \o symbol

\* f"portfolio_{portfolio_id}"
PortfolioRoom(pid) == "portfolio_" \o ToString(pid)

\* the state after WebSocketService.__init__
NoWs ==
    [connected_users |-> <<>>, user_rooms |-> <<>>, price_subscribers |-> <<>>,
     rooms |-> {},
     last |-> [sid |-> "", on |-> "none", portfolio_id |-> 0,
               event |-> "none", message |-> ""]]

WsInit == ws = NoWs

\* what a handler emits to the session of its event
Emitted(sid, on, pid, event, message) ==
    [sid |-> sid, on |-> on, portfolio_id |-> pid, event |-> event,
     message |-> message]

\* d[k] = v on a dict
Put(d, k, v) == [x \in DOMAIN d \cup {k} |-> IF x = k THEN v ELSE d[x]]

\* del d[k] and d.pop(k, None)
Drop(d, k) == [x \in DOMAIN d \ {k} |-> d[x]]

\* self.connected_users.get(session_id), "None" when there is no entry
SessionUser(sid) ==
    IF sid \in DOMAIN ws.connected_users THEN ws.connected_users[sid]
    ELSE "None"

\* the user a connect is accepted for, "None" when it returns False
ConnectingUser(auth) ==
    IF ~auth.present \/ auth.token.kind = "empty" THEN "None"
    ELSE LET user_id == VerifyToken(auth.token)
         IN IF user_id \in {"None", "KeyError", ""} THEN "None"
            ELSE IF ~ActiveUser(user_id) THEN "None"
            ELSE user_id

\* handle_connect
HandleConnect(sid, auth) ==
    LET user_id == ConnectingUser(auth)
        room == UserRoom(user_id)
        held == IF user_id \in DOMAIN ws.user_rooms
                THEN ws.user_rooms[user_id] ELSE {}
    IN /\ sid \notin DOMAIN ws.connected_users
       /\ IF user_id = "None"
          THEN ws' = [ws EXCEPT
                   !.last = Emitted(sid, "connect", 0, "refused", "")]
          ELSE ws' = [ws EXCEPT
                   !.connected_users = Put(@, sid, user_id),
                   !.user_rooms = Put(@, user_id, held \cup {room}),
                   !.rooms = @ \cup {<<sid, room>>},
                   !.last = Emitted(sid, "connect", 0, "connected", "success")]

\* handle_disconnect; the server then takes the session out of its rooms
HandleDisconnect(sid) ==
    LET user_id == SessionUser(sid)
        left == IF user_id \in DOMAIN ws.user_rooms
                THEN {<<sid, r>> : r \in ws.user_rooms[user_id]} ELSE {}
    IN /\ sid \in DOMAIN ws.connected_users
       /\ ws' = [ws EXCEPT
              !.connected_users = Drop(@, sid),
              !.user_rooms = Drop(@, user_id),
              !.price_subscribers =
                  [s \in DOMAIN @ |-> @[s] \ {user_id}],
              !.rooms = {m \in @ \ left : m[1] # sid},
              !.last = Emitted(sid, "disconnect", 0, "none", "")]

\* symbol.upper() of the first n symbols of the list
UpperOf(symbols, n) == {Upper(symbols[i]) : i \in 1 .. n}

\* handle_subscribe_prices: with no user_rooms entry for the user the
\* first symbol raises KeyError after the subscriber set and the room
\* were entered
HandleSubscribePrices(sid, symbols) ==
    LET user_id == SessionUser(sid)
        raises == user_id \notin DOMAIN ws.user_rooms /\ symbols # <<>>
        done == UpperOf(symbols, IF raises THEN 1 ELSE Len(symbols))
        subscribers(s) == IF s \in DOMAIN ws.price_subscribers
                          THEN ws.price_subscribers[s] ELSE {}
    IN IF user_id = "None"
       THEN ws' = [ws EXCEPT !.last = Emitted(sid, "subscribe_prices", 0,
                                              "error", "Not authenticated")]
       ELSE ws' = [ws EXCEPT
                !.price_subscribers =
                    [s \in DOMAIN @ \cup done |->
                        IF s \in done THEN subscribers(s) \cup {user_id}
                        ELSE @[s]],
                !.rooms = @ \cup {<<sid, PriceRoom(s)>> : s \in done},
                !.user_rooms =
                    IF raises \/ symbols = <<>> THEN @
                    ELSE [@ EXCEPT ![user_id] =
                             @ \cup {PriceRoom(s) : s \in done}],
                !.last =
                    IF raises
                    THEN Emitted(sid, "subscribe_prices", 0, "error",
                                 "Subscription failed")
                    ELSE Emitted(sid, "subscribe_prices", 0,
                                 "subscription_confirmed", "")]

\* handle_unsubscribe_prices, with the same KeyError on the first symbol
HandleUnsubscribePrices(sid, symbols) ==
    LET user_id == SessionUser(sid)
        raises == user_id \notin DOMAIN ws.user_rooms /\ symbols # <<>>
        done == UpperOf(symbols, IF raises THEN 1 ELSE Len(symbols))
    IN IF user_id = "None"
       THEN ws' = [ws EXCEPT !.last = Emitted(sid, "unsubscribe_prices", 0,
                                              "error", "Not authenticated")]
       ELSE ws' = [ws EXCEPT
                !.price_subscribers =
                    [s \in DOMAIN @ |->
                        IF s \in done THEN @[s] \ {user_id} ELSE @[s]],
                !.rooms = @ \ {<<sid, PriceRoom(s)>> : s \in done},
                !.user_rooms =
                    IF raises \/ symbols = <<>> THEN @
                    ELSE [@ EXCEPT ![user_id] =
                             @ \ {PriceRoom(s) : s \in done}],
                !.last =
                    IF raises
                    THEN Emitted(sid, "unsubscribe_prices", 0, "error",
                                 "Unsubscription failed")
                    ELSE Emitted(sid, "unsubscribe_prices", 0,
                                 "unsubscription_confirmed", "")]

\* the end of handle_subscribe_portfolio: join_room, then the entry in
\* user_rooms, which raises KeyError when the user has none
JoinPortfolioRoom(sid, user_id, pid) ==
    LET room == PortfolioRoom(pid)
    IN IF user_id \in DOMAIN ws.user_rooms
       THEN ws' = [ws EXCEPT
                !.rooms = @ \cup {<<sid, room>>},
                !.user_rooms = [@ EXCEPT ![user_id] = @ \cup {room}],
                !.last = Emitted(sid, "subscribe_portfolio", pid,
                                 "portfolio_subscription_confirmed", "")]
       ELSE ws' = [ws EXCEPT
                !.rooms = @ \cup {<<sid, room>>},
                !.last = Emitted(sid, "subscribe_portfolio", pid, "error",
                                 "Portfolio subscription failed")]

\* a subscription that asks only whether the session is authenticated
SubscribePortfolioUnfiltered(sid, pid) ==
    IF SessionUser(sid) = "None"
    THEN ws' = [ws EXCEPT !.last = Emitted(sid, "subscribe_portfolio", pid,
                                           "error", "Not authenticated")]
    ELSE JoinPortfolioRoom(sid, SessionUser(sid), pid)

\* handle_subscribe_portfolio
HandleSubscribePortfolio(sid, pid) ==
    LET user_id == SessionUser(sid)
    IN IF user_id = "None"
       THEN ws' = [ws EXCEPT !.last = Emitted(sid, "subscribe_portfolio", pid,
                                              "error", "Not authenticated")]
       ELSE IF ~FindPortfolio(pid, user_id)
       THEN ws' = [ws EXCEPT
                !.last = Emitted(sid, "subscribe_portfolio", pid, "error",
                                 "Portfolio not found or access denied")]
       ELSE JoinPortfolioRoom(sid, user_id, pid)

\* what the WebSocket handlers leave alone
notWs ==
    <<pfVars, authVars, rateVars, fetchVars, opt, risk, optWeights, varCalc,
      stress, streaming, authz, registration, refresh, twoFactor, lastCall>>

\* the events of the clients
WsNext ==
    \/ \E sid \in Sessions, auth \in ConnectAuths :
           HandleConnect(sid, auth) /\ UNCHANGED notWs
    \/ \E sid \in Sessions : HandleDisconnect(sid) /\ UNCHANGED notWs
    \/ \E sid \in Sessions, symbols \in SymbolLists :
           HandleSubscribePrices(sid, symbols) /\ UNCHANGED notWs
    \/ \E sid \in Sessions, symbols \in SymbolLists :
           HandleUnsubscribePrices(sid, symbols) /\ UNCHANGED notWs
    \/ \E sid \in Sessions, pid \in PortfolioIds :
           HandleSubscribePortfolio(sid, pid) /\ UNCHANGED notWs

---------------------------------------------------------------------------
\* Specifications: one per component; the components not exercised stay in
\* their initial state

PfIdle ==
    /\ portfolios = <<>>
    /\ holdings = {}
    /\ transactions = EmptyBag
    /\ pending = EmptyBag
    /\ resp = NoResp

AuthIdle ==
    /\ accounts = [u \in Users |-> "active"]
    /\ authReq = NoAuthReq
    /\ authResp = NoAuthResp

FetchIdle ==
    /\ cache = [s \in FetchSymbols |-> "none"]
    /\ fetch = NoFetch

InitPortfolio ==
    PfInit /\ AuthIdle /\ RateInit /\ FetchIdle /\ OptInit /\ RiskInit
    /\ WeightsInit
    /\ VarIdle
    /\ StressIdle
    /\ StreamInit
    /\ AuthzInit
    /\ RegInit
    /\ RefreshIdle
    /\ TwoFactorInit
    /\ CallIdle
    /\ WsInit

InitTransactions ==
    TxInit /\ AuthIdle /\ RateInit /\ FetchIdle /\ OptInit /\ RiskInit
    /\ WeightsInit
    /\ VarIdle
    /\ StressIdle
    /\ StreamInit
    /\ AuthzInit
    /\ RegInit
    /\ RefreshIdle
    /\ TwoFactorInit
    /\ CallIdle
    /\ WsInit

InitAuth ==
    AuthInit /\ PfIdle /\ RateInit /\ FetchIdle /\ OptInit /\ RiskInit
    /\ WeightsInit
    /\ VarIdle
    /\ StressIdle
    /\ StreamInit
    /\ AuthzInit
    /\ RegInit
    /\ RefreshIdle
    /\ TwoFactorInit
    /\ CallIdle
    /\ WsInit

InitRate ==
    RateInit /\ PfIdle /\ AuthIdle /\ FetchIdle /\ OptInit /\ RiskInit
    /\ WeightsInit
    /\ VarIdle
    /\ StressIdle
    /\ StreamInit
    /\ AuthzInit
    /\ RegInit
    /\ RefreshIdle
    /\ TwoFactorInit
    /\ CallIdle
    /\ WsInit

InitFetch ==
    FetchInit /\ PfIdle /\ AuthIdle /\ RateInit /\ OptInit /\ RiskInit
    /\ WeightsInit
    /\ VarIdle
    /\ StressIdle
    /\ StreamInit
    /\ AuthzInit
    /\ RegInit
    /\ RefreshIdle
    /\ TwoFactorInit
    /\ CallIdle
    /\ WsInit

InitOpt ==
    OptInit /\ PfIdle /\ AuthIdle /\ RateInit /\ FetchIdle /\ RiskInit
    /\ WeightsInit
    /\ VarIdle
    /\ StressIdle
    /\ StreamInit
    /\ AuthzInit
    /\ RegInit
    /\ RefreshIdle
    /\ TwoFactorInit
    /\ CallIdle
    /\ WsInit

InitRisk ==
    RiskInit /\ PfIdle /\ AuthIdle /\ RateInit /\ FetchIdle /\ OptInit
    /\ WeightsInit
    /\ VarIdle
    /\ StressIdle
    /\ StreamInit
    /\ AuthzInit
    /\ RegInit
    /\ RefreshIdle
    /\ TwoFactorInit
    /\ CallIdle
    /\ WsInit

SpecPortfolio == InitPortfolio /\ [][PfNext]_vars

SpecTransactions == InitTransactions /\ [][TxNext]_vars

SpecAuth == InitAuth /\ [][AuthNext]_vars

SpecRate == InitRate /\ [][RateNext]_vars

SpecFetch == InitFetch /\ [][FetchNext]_vars

SpecOpt == InitOpt /\ [][OptNext]_vars

SpecRisk == InitRisk /\ [][RiskNext]_vars

InitWeights ==
    WeightsInit /\ PfIdle /\ AuthIdle /\ RateInit /\ FetchIdle /\ OptInit
    /\ RiskInit
    /\ VarIdle
    /\ StressIdle
    /\ StreamInit
    /\ AuthzInit
    /\ RegInit
    /\ RefreshIdle
    /\ TwoFactorInit
    /\ CallIdle
    /\ WsInit

SpecWeights == InitWeights /\ [][WeightsNext]_vars

InitVar ==
    VarInit /\ PfIdle /\ AuthIdle /\ RateInit /\ FetchIdle /\ OptInit
    /\ RiskInit /\ WeightsInit
    /\ StressIdle
    /\ StreamInit
    /\ AuthzInit
    /\ RegInit
    /\ RefreshIdle
    /\ TwoFactorInit
    /\ CallIdle
    /\ WsInit

SpecVar == InitVar /\ [][VarNext]_vars

InitStress ==
    StressInit /\ PfIdle /\ AuthIdle /\ RateInit /\ FetchIdle /\ OptInit
    /\ RiskInit /\ WeightsInit /\ VarIdle
    /\ StreamInit
    /\ AuthzInit
    /\ RegInit
    /\ RefreshIdle
    /\ TwoFactorInit
    /\ CallIdle
    /\ WsInit

SpecStress == InitStress /\ [][StressNext]_vars

InitStream ==
    StreamInit /\ PfIdle /\ AuthIdle /\ RateInit /\ FetchIdle /\ OptInit
    /\ RiskInit /\ WeightsInit /\ VarIdle /\ StressIdle
    /\ AuthzInit
    /\ RegInit
    /\ RefreshIdle
    /\ TwoFactorInit
    /\ CallIdle
    /\ WsInit

SpecStream == InitStream /\ [][StreamNext]_vars

\* the event loop resumes every sleeping coroutine when its sleep is over
SpecStreamFair ==
    SpecStream /\ \A l \in LoopIds : WF_vars(Wake(l) /\ UNCHANGED notStream)

InitAuthz ==
    AuthzInit /\ PfIdle /\ AuthIdle /\ RateInit /\ FetchIdle /\ OptInit
    /\ RiskInit /\ WeightsInit /\ VarIdle /\ StressIdle /\ StreamInit
    /\ RegInit
    /\ RefreshIdle
    /\ TwoFactorInit
    /\ CallIdle
    /\ WsInit

SpecAuthz == InitAuthz /\ [][AuthzNext]_vars

InitReg ==
    RegInit /\ PfIdle /\ AuthIdle /\ RateInit /\ FetchIdle /\ OptInit
    /\ RiskInit /\ WeightsInit /\ VarIdle /\ StressIdle /\ StreamInit
    /\ AuthzInit
    /\ RefreshIdle
    /\ TwoFactorInit
    /\ CallIdle
    /\ WsInit

SpecReg == InitReg /\ [][RegNext]_vars

\* the users as the authentication decorators find them, nothing refreshed
InitRefresh ==
    RefreshIdle /\ AuthInit /\ PfIdle /\ RateInit /\ FetchIdle /\ OptInit
    /\ RiskInit /\ WeightsInit /\ VarIdle /\ StressIdle /\ StreamInit
    /\ AuthzInit /\ RegInit
    /\ TwoFactorInit
    /\ CallIdle
    /\ WsInit

SpecRefresh == InitRefresh /\ [][RefreshNext]_vars

InitTwoFactor ==
    TwoFactorInit /\ PfIdle /\ AuthIdle /\ RateInit /\ FetchIdle /\ OptInit
    /\ RiskInit /\ WeightsInit /\ VarIdle /\ StressIdle /\ StreamInit
    /\ AuthzInit /\ RegInit /\ RefreshIdle
    /\ CallIdle
    /\ WsInit

SpecTwoFactor == InitTwoFactor /\ [][TwoFactorNext]_vars

InitWs ==
    WsInit /\ TxInit /\ AuthInit /\ RateInit /\ FetchIdle /\ OptInit
    /\ RiskInit /\ WeightsInit /\ VarIdle /\ StressIdle /\ StreamInit
    /\ AuthzInit /\ RegInit /\ RefreshIdle /\ TwoFactorInit
    /\ CallIdle

SpecWs == InitWs /\ [][WsNext]_vars

---------------------------------------------------------------------------
\* Claims on the portfolio service

\* C1: after any sequence of add_transaction calls, every persisted
\* PortfolioHolding row has quantity >= 0.
C1_HoldingQuantityNonNegative == \A h \in holdings : h.quantity >= 0

\* a holding that was bought and then partly sold
C1_Witness ==
    \E h \in holdings :
        /\ h.quantity > 0
        /\ \E t \in BagToSet(transactions) :
               /\ t.transaction_type = "sell"
               /\ t.portfolio_id = h.portfolio_id
               /\ t.asset_id = h.asset_id

\* C2: each user has at most one default portfolio; creating a default
\* portfolio leaves it the user's only default, a flag changes only by being
\* cleared on a portfolio of the creating user, and no row changes owner.
C2_OneDefaultPerUser ==
    [][ /\ \A u \in Users : Cardinality(DefaultsIn(portfolios', u)) <= 1
        /\ \A i \in DOMAIN portfolios :
               /\ i \in DOMAIN portfolios'
               /\ portfolios'[i].user_id = portfolios[i].user_id
               /\ portfolios'[i].is_default # portfolios[i].is_default
                    => /\ portfolios[i].is_default
                       /\ Len(portfolios') = Len(portfolios) + 1
                       /\ portfolios'[Len(portfolios')] =
                              [user_id |-> portfolios[i].user_id, is_default |-> TRUE]
        /\ (Len(portfolios') > Len(portfolios) /\ portfolios'[Len(portfolios')].is_default)
             => DefaultsIn(portfolios', portfolios'[Len(portfolios')].user_id) = {Len(portfolios')}
      ]_vars

\* a user whose earlier portfolio is not default after a default one was
\* created for the same user, while the other user's default is still one
C2_Witness ==
    /\ resp.op = "create_portfolio"
    /\ resp.status = 201
    /\ \E i, j \in DOMAIN portfolios :
           /\ i < j
           /\ j = Len(portfolios)
           /\ portfolios[i].user_id = portfolios[j].user_id
           /\ ~portfolios[i].is_default
           /\ portfolios[j].is_default
           /\ \E k \in DOMAIN portfolios :
                  /\ portfolios[k].user_id # portfolios[j].user_id
                  /\ portfolios[k].is_default

PortfolioEndpoints ==
    {"get_portfolio_details", "add_transaction", "get_portfolio_performance",
     "optimize_portfolio"}

\* C4: a request naming a portfolio that does not exist, or that the caller
\* does not own, is answered with HTTP 404 on every portfolio endpoint.
C4_MissingPortfolioIs404 ==
    (resp.op \in PortfolioEndpoints /\ <<"error", "Portfolio not found">> \in resp.body)
        => resp.status = 404

---------------------------------------------------------------------------
\* Claims on the authentication decorators

\* the request's token verifies and names an existing, active user
CarriesValidToken(req) ==
    /\ req.header.present
    /\ Len(req.header.rest) >= 1
    /\ LET tok == req.header.rest[1]
       IN /\ tok.kind = "jwt"
          /\ tok.signed
          /\ ~tok.expired
          /\ tok.user_id \in Users
          /\ accounts[tok.user_id] = "active"

\* C3: every error response is a JSON object that contains success = false
\* and an error message.
C3_ErrorsAreStructured ==
    authResp.status >= 400
        => (<<"success", "false">> \in authResp.body /\ HasKey(authResp.body, "error"))

\* C5: the function token_required wraps runs only for a request whose token
\* verifies and resolves to an existing active user; every other request to
\* the endpoint gets 401 and the function does not run.
C5_TokenRequired ==
    authReq.guard \in {"none", "premium", "admin"} /\ authResp.status # 0
        => /\ authResp.tokenPassed => CarriesValidToken(authReq)
           /\ ~CarriesValidToken(authReq)
                => (authResp.status = 401 /\ ~authResp.tokenPassed /\ ~authResp.invoked)

\* an expired, correctly signed token of an active user was refused
C5_Witness ==
    /\ authResp.status = 401
    /\ authReq.header.present
    /\ Len(authReq.header.rest) = 1
    /\ authReq.header.rest[1].kind = "jwt"
    /\ authReq.header.rest[1].signed
    /\ authReq.header.rest[1].expired
    /\ authReq.header.rest[1].user_id \in Users
    /\ accounts[authReq.header.rest[1].user_id] = "active"

---------------------------------------------------------------------------
\* Claims on the rate limiter

\* the requests of key the limiter let through at a time in (from, to]
AllowedWithin(key, from, to) ==
    Cardinality({i \in DOMAIN allowedLog[key] :
                    from < allowedLog[key][i] /\ allowedLog[key][i] <= to})

\* C6: in the window seconds that end with a request the limiter lets
\* through, it lets through at most limit requests of that key (5 on
\* register, 10 on login); a request it does not let through is answered
\* 429 and the route function is not invoked.
C6_AtMostLimitPerWindow ==
    rateResp.status # 0 =>
        /\ (rateResp.status = 429) <=> ~rateResp.invoked
        /\ rateResp.invoked =>
               AllowedWithin(rateResp.key, rateResp.at - Window, rateResp.at)
                   <= Limit(rateResp.endpoint)

\* the eleventh login of an address inside one window is answered 429
C6_Witness ==
    /\ rateResp.endpoint = "login"
    /\ rateResp.status = 429
    /\ ~rateResp.invoked
    /\ AllowedWithin(rateResp.key, rateResp.at - Window, rateResp.at) = LoginLimit

---------------------------------------------------------------------------
\* Claims on the market-data fetchers

\* C8: one fetch_data call issues at most one outbound request; when the
\* request ends in an error (HTTP 429 included) it is not issued again and
\* the call returns an empty result.
C8_AtMostOneRequest ==
    /\ fetch.calls <= 1
    /\ (fetch.pc = "done" /\ fetch.outcome \in ErrorOutcomes) =>
           (fetch.calls = 1 /\ fetch.result = "empty")

\* a fetch answered 429 slept, made no second request and returned empty
C8_Witness ==
    /\ fetch.pc = "done"
    /\ fetch.outcome = "429"
    /\ fetch.slept
    /\ fetch.calls = 1
    /\ fetch.result = "empty"

---------------------------------------------------------------------------
\* Claims on the optimizers

\* C9: when the solver ends with a status other than optimal, the routine
\* returns {success: false, error} without weights, does not raise, and has
\* run the solver exactly once.
C9_NonOptimalIsStructuredFailure ==
    (opt.pc = "done" /\ opt.solves > 0 /\ opt.status \notin {"optimal", "success"}) =>
        /\ ~opt.raised
        /\ <<"success", "false">> \in opt.body
        /\ HasKey(opt.body, "error")
        /\ ~opt.weights
        /\ opt.solves = 1

---------------------------------------------------------------------------
\* Claims on the risk service

\* C10: calculate_var and calculate_portfolio_metrics succeed only on at
\* least 30 portfolio return observations; on fewer, or none, they return
\* {success: false, error} whatever the method and compute no metric.
C10_MinimumSample ==
    risk.op # "none" =>
        /\ <<"success", "true">> \in risk.body =>
               risk.observations >= MinObservations
        /\ risk.observations < MinObservations =>
               /\ <<"success", "false">> \in risk.body
               /\ HasKey(risk.body, "error")
               /\ ~risk.computed

\* a Monte Carlo VaR asked for on 29 observations is refused
C10_Witness ==
    /\ risk.op = "calculate_var"
    /\ risk.method = "monte_carlo"
    /\ Len(risk.holdings) = 2
    /\ risk.observations = MinObservations - 1
    /\ <<"success", "false">> \in risk.body
    /\ ~risk.computed

---------------------------------------------------------------------------
\* Claims on the weight optimization

\* C11: when an optimization reports success, every weight lies between 0
\* and 1 and the weights sum to 1, whatever the expected returns, the
\* covariance matrix and the risk tolerance.
C11_WeightsInBoxAndSumToOne ==
    optWeights.success =>
        /\ optWeights.result # NaN
        /\ \A i \in 1 .. 2 :
               /\ 0 <= optWeights.result.num[i]
               /\ optWeights.result.num[i] <= optWeights.result.den
        /\ optWeights.result.num[1] + optWeights.result.num[2] = optWeights.result.den

---------------------------------------------------------------------------
\* Claims on the value at risk

\* C12: on every return series the historical VaR at 99% confidence is at
\* most the VaR at 95% confidence, and both are at most 0.
C12_VarOrderedAndNonPositive ==
    (varCalc.success /\ varCalc.method = "historical") =>
        LET var99 == HistoricalVar(varCalc.returns, 99, varCalc.horizon)
            var95 == HistoricalVar(varCalc.returns, 95, varCalc.horizon)
        IN /\ LessEq(var99, var95)
           /\ NonPositive(var99)
           /\ NonPositive(var95)
           /\ NonPositive(varCalc.value)

\* the ordering alone, which the percentile does satisfy
VarOrdered ==
    (varCalc.success /\ varCalc.method = "historical") =>
        LessEq(HistoricalVar(varCalc.returns, 99, varCalc.horizon),
               HistoricalVar(varCalc.returns, 95, varCalc.horizon))

\* C13: in every successful calculate_var result the expected shortfall is
\* at most the reported VaR, whatever the method, the confidence level and
\* the time horizon.
C13_ShortfallAtMostVar ==
    varCalc.success => LessEq(varCalc.expected_shortfall, varCalc.value)

\* the same for the historical method alone, where both numbers come from
\* the same percentile
HistoricalShortfallAtMostVar ==
    (varCalc.success /\ varCalc.method = "historical") =>
        LessEq(varCalc.expected_shortfall, varCalc.value)

---------------------------------------------------------------------------
\* Claims on the stress test

\* the shock the scenario applies to every holding, if it applies one and
\* the same to all of them
UniformShocks ==
    {x \in Shocks :
        \A i \in DOMAIN stress.holdings :
            LET symbol == stress.holdings[i].symbol
                listed == symbol \in DOMAIN stress.scenario.asset_shocks
            IN \/ listed /\ stress.scenario.asset_shocks[symbol] = x
               \/ ~listed /\ stress.scenario.market_shock = x}

---------------------------------------------------------------------------
\* Claims on the price stream

\* a loop that was running when stop_price_streaming() was called returns
StoppedLoopsReturn ==
    \A l \in LoopIds :
        [](streaming.loops[l].stopped => <>(streaming.loops[l].pc = "returned"))

\* a loop does not broadcast after stop_price_streaming() was called on it
NoLateBroadcast == \A l \in LoopIds : ~streaming.loops[l].late

\* C15: after stop_price_streaming() the streaming loop terminates, and it
\* broadcasts no price_update beyond the iteration in progress, however the
\* calls of start_price_streaming and stop_price_streaming interleave.
C15_StopEndsStreaming == StoppedLoopsReturn /\ []NoLateBroadcast

\* with a single start the loop does end without a further broadcast
SingleStart ==
    \A l \in LoopIds : l > 1 => streaming.loops[l].pc = "new"

C15_HoldsForSingleStart == [](SingleStart => NoLateBroadcast)

---------------------------------------------------------------------------
\* Claims on authorization

\* C16: the admin role holds every permission that any role holds, and
\* check_resource_access grants an admin user every resource.
C16_AdminHoldsEverything ==
    /\ (authz.op = "has_permission" /\ authz.result = "True") =>
           has_permission("admin", authz.permission)
    /\ (authz.op = "check_resource_access" /\ authz.role = "admin") =>
           authz.result = "True"

\* the resource half alone
AdminAccessesEveryResource ==
    (authz.op = "check_resource_access" /\ authz.role = "admin") =>
        authz.result = "True"

---------------------------------------------------------------------------
\* Claims on registration

\* the request just served passes every check of register_user
Registrable(users) ==
    /\ Len(registration'.username) >= 3
    /\ validate_email(registration'.email)
    /\ validate_password(registration'.password) = "Password is valid"
    /\ \A u \in users : /\ u.username # registration'.username
                        /\ u.email # registration'.email

\* C17: register_user adds a user only when the username has at least 3
\* characters, the email matches the pattern, the password passes
\* validate_password and neither username nor email is registered yet, and
\* then it adds exactly that user; otherwise it returns success false with an
\* error and leaves the users as they are.  Usernames and emails stay unique.
C17_RegistrationGuarded ==
    [][ /\ \/ /\ Registrable(registration.users)
              /\ <<"success", "true">> \in registration'.body
              /\ registration'.users = registration.users \cup
                     {[username |-> registration'.username,
                       email |-> registration'.email]}
           \/ /\ <<"success", "false">> \in registration'.body
              /\ HasKey(registration'.body, "error")
              /\ registration'.users = registration.users
        /\ \A u, v \in registration'.users :
               (u.username = v.username \/ u.email = v.email) => u = v
      ]_vars

\* two users are registered, and a registration with a new email address
\* was turned down for its username being taken
C17_Witness ==
    /\ Cardinality(registration.users) = 2
    /\ registration.op = "register_user"
    /\ \A u \in registration.users : u.email # registration.email
    /\ registration.body = Fail("Username already exists")

\* C18: a POST to /api/v1/auth/register whose body is not valid JSON is
\* answered with HTTP 400, and no user is created.
C18_MalformedJsonIs400 ==
    (registration.op = "register" /\ registration.json = "malformed") =>
        registration.status = 400

\* the second half: a request whose body is not JSON leaves the users alone
MalformedJsonCreatesNoUser ==
    [][(registration'.op = "register" /\ registration'.json = "malformed")
         => registration'.users = registration.users]_vars

---------------------------------------------------------------------------
\* Claims on token refresh

\* C19: refresh_access_token issues an access token only for a correctly
\* signed, unexpired token of type 'refresh' whose user exists and is active,
\* and it issues the token for that user; a valid access token presented to
\* it is rejected with 'Invalid token type' and gets no token.
C19_RefreshOnlyForRefreshTokens ==
    refresh.called =>
        /\ HasKey(refresh.body, "access_token") =>
               /\ refresh.token.kind = "jwt"
               /\ refresh.token.signed
               /\ ~refresh.token.expired
               /\ refresh.token.type = "refresh"
               /\ ActiveUser(refresh.token.user_id)
               /\ <<"access_token", refresh.token.user_id>> \in refresh.body
        /\ ( /\ refresh.token.kind = "jwt"
             /\ refresh.token.signed
             /\ ~refresh.token.expired
             /\ refresh.token.type = "access" ) =>
               refresh.body = Fail("Invalid token type")

\* the valid access token of an active user was presented and rejected
C19_Witness ==
    /\ refresh.called
    /\ refresh.token.kind = "jwt"
    /\ refresh.token.signed
    /\ ~refresh.token.expired
    /\ refresh.token.type = "access"
    /\ ActiveUser(refresh.token.user_id)
    /\ refresh.body = Fail("Invalid token type")

---------------------------------------------------------------------------
\* Claims on two-factor authentication

\* C20: a handler behind require_2fa is invoked only if the authenticated
\* user has two-factor authentication enabled and the X-TOTP-Token header
\* carries a code that verifies against that user's 2FA secret.
C20_HandlerNeedsVerifiedCode ==
    twoFactor.invoked =>
        /\ twoFactor.authenticated
        /\ twoFactor.two_factor_enabled
        /\ verify_2fa_token(twoFactor.secret, twoFactor.header, twoFactor.now)

\* what the decorator does ensure: an authenticated user with 2FA enabled
\* and a header that is not empty
HandlerNeedsSomeCode ==
    twoFactor.invoked =>
        /\ twoFactor.authenticated
        /\ twoFactor.two_factor_enabled
        /\ twoFactor.header.kind = "code"

---------------------------------------------------------------------------
\* Claims on the ledger of add_transaction

\* the recorded transactions of one kind on one portfolio and asset
Recorded(pid, a, kind) ==
    {t \in BagToSet(transactions) :
        t.portfolio_id = pid /\ t.asset_id = a /\ t.transaction_type = kind}

RECURSIVE QuantityOf(_)
\* the sum of the quantities of these transaction rows, with their copies
QuantityOf(rows) ==
    IF rows = {} THEN 0
    ELSE LET t == CHOOSE x \in rows : TRUE
         IN CopiesIn(t, transactions) * t.quantity + QuantityOf(rows \ {t})

RECURSIVE AmountOf(_)
\* the sum of quantity * price + fees over these transaction rows
AmountOf(rows) ==
    IF rows = {} THEN 0
    ELSE LET t == CHOOSE x \in rows : TRUE
         IN CopiesIn(t, transactions) * (t.quantity * t.price + t.fees)
            + AmountOf(rows \ {t})

\* the first two parts of C21, which the holdings do satisfy
OneNonEmptyHoldingPerAsset ==
    /\ \A h, g \in holdings :
           (h.portfolio_id = g.portfolio_id /\ h.asset_id = g.asset_id) => h = g
    /\ \A h \in holdings : h.quantity # 0

\* C21: after any sequence of add_transaction calls there is at most one
\* holding per portfolio and asset, no holding has quantity 0, and the
\* quantity of each holding is what the recorded transactions of its
\* portfolio and asset bought minus what they sold.
C21_HoldingsMatchLedger ==
    /\ OneNonEmptyHoldingPerAsset
    /\ \A h \in holdings :
           h.quantity =
               QuantityOf(Recorded(h.portfolio_id, h.asset_id, "buy"))
               - QuantityOf(Recorded(h.portfolio_id, h.asset_id, "sell"))

\* the response to the last request is a successful add_transaction
Accepted(r) == r.op = "add_transaction" /\ <<"success", "true">> \in r.body

\* a step in which the refused sale is answered
Refused(r) ==
    r.op = "add_transaction"
    /\ r.body = Fail("Insufficient holdings to sell")

\* C22: when add_transaction refuses a sell for insufficient holdings, the
\* holdings stay as they are and the row of that call is never persisted:
\* the transactions table grows only by the one row of a call that
\* succeeded, also when a later call commits on the same session.
C22_RefusedSellLeavesNoRow ==
    [][ /\ Refused(resp') => holdings' = holdings
        /\ transactions' # transactions =>
               /\ Accepted(resp')
               /\ BagCardinality(transactions') =
                      BagCardinality(transactions) + 1
      ]_vars

\* what does hold: the refusal itself changes neither table
RefusalChangesNoTable ==
    [][Refused(resp') /\ resp' # resp =>
           holdings' = holdings /\ transactions' = transactions]_vars

\* C23: after buys of one asset in one portfolio and nothing else, the
\* holding's quantity * average_cost is the sum over those buys of
\* quantity * price + fees, from the first buy on.
C23_CostBasisIsAmountPaid ==
    \A h \in holdings :
        (/\ pending = EmptyBag
         /\ Recorded(h.portfolio_id, h.asset_id, "sell") = {}
         /\ Recorded(h.portfolio_id, h.asset_id, "dividend") = {})
        => h.quantity * h.average_cost =
               AmountOf(Recorded(h.portfolio_id, h.asset_id, "buy"))

\* the same without fees: the first buy records its price as the cost
CostBasisWithoutFees ==
    \A h \in holdings :
        \A t \in Recorded(h.portfolio_id, h.asset_id, "buy") :
            (/\ pending = EmptyBag
             /\ BagCardinality(transactions) = 1
             /\ t.fees = 0)
            => h.quantity * h.average_cost = t.quantity * t.price

---------------------------------------------------------------------------
\* Claims on the ownership filter of the portfolio service

\* the portfolios that exist and belong to somebody other than uid
PortfoliosOfOthers(uid) ==
    {p \in DOMAIN portfolios : portfolios[p].user_id # uid}

\* an id that no portfolio has
MissingId == Len(portfolios) + 1

\* the tables and the session are as they were
NoStateChange ==
    UNCHANGED <<portfolios, holdings, transactions, pending>>

\* the step answers a request of uid for portfolio id pid: the session
\* is not just ending
Answers(uid, pid) == Call(uid, pid) /\ ~(Teardown /\ UNCHANGED lastCall)

\* C24: get_portfolio_details, add_transaction, get_portfolio_performance
\* and optimize_portfolio, called by a user for a portfolio of somebody
\* else, change no state and answer exactly as they answer a call for
\* an id that no portfolio has: 'Portfolio not found'.
C24_ForeignPortfolioLooksMissing ==
    [][\A u \in Users : \A p \in PortfoliosOfOthers(u) :
        Answers(u, p) =>
            /\ NoStateChange
            /\ \/ GetPortfolioDetails(u, MissingId)
               \/ GetPortfolioPerformance(u, MissingId)
               \/ \E pd \in SUBSET Assets : OptimizePortfolio(u, MissingId, pd)
               \/ \E s \in Symbols, t \in TxTypeInputs, q \in Quantities,
                     pr \in Prices, f \in FeeValues :
                      AddTransaction(u, MissingId, s, t, q, pr, f)
      ]_vars

\* a user has asked for the portfolio of another user, which holds
\* an asset, and has been told that there is no such portfolio
C24_Witness ==
    /\ lastCall.user_id \in Users
    /\ lastCall.portfolio_id \in PortfoliosOfOthers(lastCall.user_id)
    /\ \E h \in holdings : h.portfolio_id = lastCall.portfolio_id
    /\ resp.op \in {"get_portfolio_details", "add_transaction"}
    /\ <<"error", "Portfolio not found">> \in resp.body

---------------------------------------------------------------------------
\* Claims on the WebSocket service

\* the session is authenticated and its user owns the portfolio
MaySubscribe(sid, pid) ==
    /\ sid \in DOMAIN ws.connected_users
    /\ pid \in DOMAIN portfolios
    /\ portfolios[pid].user_id = ws.connected_users[sid]

\* the step handles subscribe_portfolio of session sid for portfolio pid
SubscribesTo(sid, pid) ==
    /\ ws' # ws
    /\ ws'.last.on = "subscribe_portfolio"
    /\ ws'.last.sid = sid
    /\ ws'.last.portfolio_id = pid

\* C25: a session is joined to the room portfolio_<id> only if it is
\* authenticated (in connected_users) and its user owns portfolio <id>;
\* otherwise an error event is emitted and the room memberships in
\* user_rooms are unchanged.
C25_PortfolioRoomOnlyForOwner ==
    [][\A sid \in Sessions, pid \in PortfolioIds :
        /\ (<<sid, PortfolioRoom(pid)>> \in ws'.rooms \ ws.rooms) =>
               MaySubscribe(sid, pid)
        /\ (SubscribesTo(sid, pid) /\ ~MaySubscribe(sid, pid)) =>
               /\ ws'.last.event = "error"
               /\ ws'.user_rooms = ws.user_rooms
               /\ ws'.rooms = ws.rooms
      ]_vars

\* a session of one user was refused the room of a portfolio of the
\* other user, whose own session is in that room
C25_Witness ==
    /\ ws.last.on = "subscribe_portfolio"
    /\ ws.last.event = "error"
    /\ ws.last.message = "Portfolio not found or access denied"
    /\ ws.last.sid \in DOMAIN ws.connected_users
    /\ ws.last.portfolio_id \in DOMAIN portfolios
    /\ \E other \in DOMAIN ws.connected_users :
           /\ <<other, PortfolioRoom(ws.last.portfolio_id)>> \in ws.rooms
           /\ MaySubscribe(other, ws.last.portfolio_id)
           /\ ~MaySubscribe(ws.last.sid, ws.last.portfolio_id)

\* the sessions connected for a user in the state w of the service
SessionsOf(w, uid) ==
    {sid \in DOMAIN w.connected_users : w.connected_users[sid] = uid}

\* every connected session has a user_rooms entry for its user
ConnectedHaveRooms ==
    \A sid \in DOMAIN ws.connected_users :
        ws.connected_users[sid] \in DOMAIN ws.user_rooms

\* a disconnect takes a user out of a subscriber set only when it was the
\* user's last session
UnsubscribedOnLastDisconnect ==
    [][ws'.last.on = "disconnect" =>
           \A symbol \in DOMAIN ws.price_subscribers :
               \A uid \in ws.price_subscribers[symbol]
                          \ ws'.price_subscribers[symbol] :
                   SessionsOf(ws', uid) = {}
      ]_vars

\* C26: in every reachable state each session in connected_users has a
\* user_rooms entry for its user, and a user is taken out of the
\* price_subscribers sets only when no session of that user is left
\* connected, also when one of several sessions of a user disconnects.
C26_SessionsKeepRoomsAndSubscriptions ==
    []ConnectedHaveRooms /\ UnsubscribedOnLastDisconnect

\* what does hold is the converse: a user with a user_rooms entry has a
\* connected session
NoEntryWithoutSession ==
    \A uid \in DOMAIN ws.user_rooms : SessionsOf(ws, uid) # {}

====
